---------------------------- MODULE Spec2Model ----------------------------
(***************************************************************************)
(* QRFS: a FUSE filesystem kept in memory (QRFileSystem), mirrored entry   *)
(* by entry on a block-structured backing file, and exported to / imported *)
(* from a directory of numbered QR images guarded by a passphrase.         *)
(*                                                                         *)
(* Bytes are naturals 0..255, byte strings are sequences of bytes.  An     *)
(* Option<T> is a tuple: None is << >>, Some(v) is << v >>.                *)
(* All integers of the model stay below 2^31, so a u64 is written with its *)
(* four upper bytes zero.                                                  *)
(***************************************************************************)
EXTENDS Integers, Sequences, FiniteSets, TLC

(***************************************************************************)
(* Program constants (lib.rs:22-27, 578) and the bounds of the model.      *)
(***************************************************************************)
\* lib.rs:22 has 2048; the model keeps the layout and scales the number of
\* blocks down (block 0 bitmap, block 1 counter cell, blocks 2.. entries).
BLOCK_COUNT == 5
BLOCK_SIZE == 512
MAX_NAME_SIZE == 25
BITMAP_START == 0
INODE_COUNTER_START == 1
DATA_START == 2
MAX_QR_DATA_SIZE == 512
\* Size of the fixed part of a serialized entry (offset of the inline data).
ENTRY_HEADER == 88

\* Handlers issue inode ids while INODE_COUNTER < MaxInode.
MaxInode == 5
\* The one value SystemTime::now() takes in the model (seconds, nanoseconds).
NowSec == 1700000000
NowNsec == 123456789

None == << >>
Some(v) == << v >>
IsSome(o) == o # << >>
Unwrap(o) == o[1]

\* let value = ...; body
With(value, Body(_)) == Body(value)

Min(a, b) == IF a < b THEN a ELSE b
Max(a, b) == IF a > b THEN a ELSE b
Zeros(n) == [i \in 1..n |-> 0]
SetMin(S) == CHOOSE x \in S : \A y \in S : x <= y

(***************************************************************************)
(* Little-endian integers (u64::to_le_bytes / from_le_bytes).              *)
(***************************************************************************)
to_le_bytes(v, width) ==
    [i \in 1..width |->
        CASE i = 1 -> v % 256
          [] i = 2 -> (v \div 256) % 256
          [] i = 3 -> (v \div 65536) % 256
          [] i = 4 -> (v \div 16777216) % 256
          [] OTHER -> 0]

from_le_bytes(b) ==
    b[1] + 256 * b[2]
    + (IF Len(b) >= 3 THEN 65536 * b[3] ELSE 0)
    + (IF Len(b) >= 4 THEN 16777216 * b[4] ELSE 0)

(***************************************************************************)
(* Names: [u8; 25] in memory and on disk.                                  *)
(***************************************************************************)
fixed_name(bytes) ==
    LET len == Min(Len(bytes), MAX_NAME_SIZE)
    IN  [i \in 1..MAX_NAME_SIZE |-> IF i <= len THEN bytes[i] ELSE 0]

\* The bytes before the first zero byte.  (Every name of the model is
\* ASCII, so the from_utf8 check of the source always succeeds.)
fixed_name_to_str(buf) ==
    LET zs == {i \in 1..MAX_NAME_SIZE : buf[i] = 0}
        end == IF zs = {} THEN MAX_NAME_SIZE ELSE SetMin(zs) - 1
    IN  SubSeq(buf, 1, end)

(***************************************************************************)
(* Attributes and entries.                                                 *)
(***************************************************************************)
get_default_attrs(file_inode, size, is_folder) ==
    [ino |-> file_inode, size |-> size, blocks |-> 0,
     atime |-> <<NowSec, NowNsec>>, mtime |-> <<NowSec, NowNsec>>,
     ctime |-> <<NowSec, NowNsec>>, crtime |-> <<NowSec, NowNsec>>,
     kind |-> IF is_folder THEN "Directory" ELSE "RegularFile",
     perm |-> 493, nlink |-> 0, uid |-> 0, gid |-> 0, rdev |-> 0,
     flags |-> 0, blksize |-> 4096]

FSEntry_new(file_inode, file_name, file_data, parent_inode, file_attrs) ==
    [inode |-> file_inode, name |-> fixed_name(file_name), data |-> file_data,
     parent |-> parent_inode, children |-> << >>, attrs |-> file_attrs]

to_seconds(t) == t[1]
u64_to_systemtime(secs) == <<secs, 0>>

(***************************************************************************)
(* Entry codec of the backing file.                                        *)
(***************************************************************************)
serialize_fs_entry_to_disk(f) ==
    to_le_bytes(f.inode, 8) \o to_le_bytes(f.parent, 8) \o f.name
    \o << IF f.attrs.kind = "Directory" THEN 1 ELSE 0 >>
    \o to_le_bytes(f.attrs.perm, 2)
    \o to_le_bytes(to_seconds(f.attrs.atime), 8)
    \o to_le_bytes(to_seconds(f.attrs.mtime), 8)
    \o to_le_bytes(to_seconds(f.attrs.ctime), 8)
    \o to_le_bytes(to_seconds(f.attrs.crtime), 8)
    \o to_le_bytes(f.attrs.blksize, 4)
    \o to_le_bytes(f.attrs.size, 8)
    \o (IF IsSome(f.data) THEN Unwrap(f.data) ELSE << >>)

\* The slice buf[88 .. 88 + size] of the source panics when it leaves the
\* block: DeserializePanics tells when, deserialize_fs_entry is the entry
\* otherwise.
DeserializePanics(buf) ==
    ENTRY_HEADER + from_le_bytes(SubSeq(buf, 81, 88)) > Len(buf)

deserialize_fs_entry(buf) ==
    LET file_inode == from_le_bytes(SubSeq(buf, 1, 8))
        file_parent == from_le_bytes(SubSeq(buf, 9, 16))
        file_name == SubSeq(buf, 17, 41)
        is_directory == buf[42]
        file_perm == from_le_bytes(SubSeq(buf, 43, 44))
        file_atime == u64_to_systemtime(from_le_bytes(SubSeq(buf, 45, 52)))
        file_mtime == u64_to_systemtime(from_le_bytes(SubSeq(buf, 53, 60)))
        file_ctime == u64_to_systemtime(from_le_bytes(SubSeq(buf, 61, 68)))
        file_crtime == u64_to_systemtime(from_le_bytes(SubSeq(buf, 69, 76)))
        file_blksize == from_le_bytes(SubSeq(buf, 77, 80))
        file_data_size == from_le_bytes(SubSeq(buf, 81, 88))
        file_data_vec == SubSeq(buf, ENTRY_HEADER + 1, ENTRY_HEADER + file_data_size)
    IN  [inode |-> file_inode, name |-> file_name,
         data |-> IF file_data_vec = << >> THEN None ELSE Some(file_data_vec),
         parent |-> file_parent, children |-> << >>,
         attrs |-> [ino |-> file_inode, size |-> file_data_size, blocks |-> 0,
                    atime |-> file_atime, mtime |-> file_mtime,
                    ctime |-> file_ctime, crtime |-> file_crtime,
                    kind |-> IF is_directory # 0 THEN "Directory" ELSE "RegularFile",
                    perm |-> file_perm, nlink |-> 0, uid |-> 0, gid |-> 0,
                    rdev |-> 0, flags |-> 0, blksize |-> file_blksize]]


(***************************************************************************)
(* The backing file.  disk.bitmap is block 0 as the set of the indices of  *)
(* its set bits, disk.counter the u64 at the start of block 1, and         *)
(* disk.blocks[b] the bytes last written to block b: write_block pads them *)
(* with zeros to BLOCK_SIZE, which read_block puts back.                   *)
(***************************************************************************)
bitmap_get(bm, idx) == (idx \div 8) < BLOCK_SIZE /\ idx \in bm

\* bitmap_set_bit with the bit index off by one.
bitmap_set_bit_next(bm, idx) == bm \cup {idx + 1}

bitmap_set_bit(bm, idx) == IF (idx \div 8) < BLOCK_SIZE THEN bm \cup {idx} ELSE bm

bitmap_clear_bit(bm, idx) == IF (idx \div 8) < BLOCK_SIZE THEN bm \ {idx} ELSE bm

read_bitmap(d) == d.bitmap

write_bitmap(d, bm) == [d EXCEPT !.bitmap = bm]

write_u64(d, v) == [d EXCEPT !.counter = v]

read_u64(d) == d.counter

\* allocate_block scanning from the top: the highest free index wins.
allocate_block_highest(d) ==
    LET bm == read_bitmap(d)
        free == {b \in DATA_START..(BLOCK_COUNT - 1) : ~bitmap_get(bm, b)}
    IN  IF free = {}
        THEN [disk |-> d, block |-> None]
        ELSE [disk |-> write_bitmap(d, bitmap_set_bit(bm, CHOOSE x \in free : \A y \in free : y <= x)),
              block |-> Some(CHOOSE x \in free : \A y \in free : y <= x)]

\* [disk, block]: block is Some(lowest free index) or None.
allocate_block(d) ==
    LET bm == read_bitmap(d)
        free == {b \in DATA_START..(BLOCK_COUNT - 1) : ~bitmap_get(bm, b)}
    IN  IF free = {}
        THEN [disk |-> d, block |-> None]
        ELSE [disk |-> write_bitmap(d, bitmap_set_bit(bm, SetMin(free))),
              block |-> Some(SetMin(free))]

\* free_block taking block_idx as counted from the first entry block.
free_block_relative(d, block_idx) ==
    write_bitmap(d, bitmap_clear_bit(read_bitmap(d), block_idx - DATA_START))

free_block(d, block_idx) ==
    write_bitmap(d, bitmap_clear_bit(read_bitmap(d), block_idx))

\* write_block without the length test: the bytes after the first BLOCK_SIZE
\* land at the start of the block that follows.
write_block_spill(d, block_idx, data) ==
    [disk |-> [d EXCEPT !.blocks =
                  [b \in DOMAIN d.blocks |->
                      IF b = block_idx
                      THEN SubSeq(data, 1, Min(Len(data), BLOCK_SIZE))
                      ELSE IF b = block_idx + 1 /\ Len(data) > BLOCK_SIZE
                      THEN SubSeq(data, BLOCK_SIZE + 1, Len(data))
                              \o SubSeq(d.blocks[b], Len(data) - BLOCK_SIZE + 1,
                                        Len(d.blocks[b]))
                      ELSE d.blocks[b]]],
     ok |-> TRUE]

\* [disk, ok]: ok is FALSE for the InvalidInput error "data too large".
write_block(d, block_idx, data) ==
    IF Len(data) > BLOCK_SIZE
    THEN [disk |-> d, ok |-> FALSE]
    ELSE [disk |-> [d EXCEPT !.blocks[block_idx] = data], ok |-> TRUE]

read_block(d, block_idx) ==
    d.blocks[block_idx] \o Zeros(BLOCK_SIZE - Len(d.blocks[block_idx]))

initialize_new_disk ==
    [bitmap |-> {0, 1}, counter |-> 0,
     blocks |-> [b \in DATA_START..(BLOCK_COUNT - 1) |-> << >>]]

(***************************************************************************)
(* QRFileSystem: [files, inode_block_table, bitmap, disk].  An operation   *)
(* that can fail returns [fs, res] with res "Ok", "Err" or "Panic".        *)
(***************************************************************************)
QRFileSystem_new(d) ==
    [files |-> << >>, inode_block_table |-> << >>,
     bitmap |-> read_bitmap(d), disk |-> d]

\* m with key k set to v (HashMap::insert).
Insert(m, k, v) == [x \in DOMAIN m \cup {k} |-> IF x = k THEN v ELSE m[x]]
\* m without key k (HashMap::remove).
Remove(m, k) == [x \in DOMAIN m \ {k} |-> m[x]]
\* Vec::retain(|&x| x != v)
Retain(seq, v) == SelectSeq(seq, LAMBDA x : x # v)

push(fs, inode, file_name, data, parent_inode, file_attrs) ==
    LET file == FSEntry_new(inode, file_name, data, parent_inode, file_attrs)
        files1 == Insert(fs.files, inode, file)
        serialized_data == serialize_fs_entry_to_disk(file)
        alloc == allocate_block(fs.disk)
    IN  IF alloc.block = None
        THEN [fs |-> [fs EXCEPT !.files = files1], res |-> "Panic"]
        ELSE
        LET idx == Unwrap(alloc.block)
            table1 == Insert(fs.inode_block_table, inode, idx)
            wr == write_block(alloc.disk, idx, serialized_data)
        IN  IF ~wr.ok
            THEN [fs |-> [fs EXCEPT !.files = files1,
                                    !.inode_block_table = table1,
                                    !.disk = alloc.disk],
                  res |-> "Err"]
            ELSE
            LET bitmap1 == bitmap_set_bit(fs.bitmap, idx)
                disk1 == write_bitmap(wr.disk, bitmap1)
                files2 == IF parent_inode \in DOMAIN files1
                          THEN [files1 EXCEPT ![parent_inode].children =
                                                  Append(@, inode)]
                          ELSE files1
            IN  [fs |-> [files |-> files2, inode_block_table |-> table1,
                         bitmap |-> bitmap1, disk |-> disk1],
                 res |-> "Ok"]

\* The first child of old_parent_inode whose name is file_old_name.
FindChild(files, parent_inode, name) ==
    IF parent_inode \notin DOMAIN files THEN None
    ELSE LET ch == files[parent_inode].children
             hits == {i \in 1..Len(ch) :
                         /\ ch[i] \in DOMAIN files
                         /\ fixed_name_to_str(files[ch[i]].name) = name}
         IN  IF hits = {} THEN None ELSE Some(ch[SetMin(hits)])

rename(fs, old_parent_inode, file_old_name, new_parent_inode, file_new_name) ==
    LET found_child_inode == FindChild(fs.files, old_parent_inode, file_old_name)
    IN  IF found_child_inode = None THEN [fs |-> fs, res |-> "Ok"]
        ELSE
        LET child_inode == Unwrap(found_child_inode)
            files1 == [fs.files EXCEPT ![child_inode].name = fixed_name(file_new_name),
                                       ![child_inode].parent = new_parent_inode]
        IN  IF child_inode \notin DOMAIN fs.inode_block_table
            THEN [fs |-> [fs EXCEPT !.files = files1], res |-> "Panic"]
            ELSE
            LET wr == write_block(fs.disk, fs.inode_block_table[child_inode],
                                  serialize_fs_entry_to_disk(files1[child_inode]))
                files2 == IF old_parent_inode \in DOMAIN files1
                          THEN [files1 EXCEPT ![old_parent_inode].children =
                                                  Retain(@, child_inode)]
                          ELSE files1
                files3 == IF new_parent_inode \in DOMAIN files2
                          THEN [files2 EXCEPT ![new_parent_inode].children =
                                                  Append(@, child_inode)]
                          ELSE files2
            IN  [fs |-> [fs EXCEPT !.files = files3, !.disk = wr.disk],
                 res |-> "Ok"]

\* fill_children: every entry with a parent other than 0 is appended to the
\* children of that parent, if it exists.  order is the order in which the
\* HashMap hands out the entries (a sequence of the inodes).
fill_children(files, order) ==
    [i \in DOMAIN files |->
        [files[i] EXCEPT !.children =
            @ \o SelectSeq(order, LAMBDA c : files[c].parent # 0 /\ files[c].parent = i)]]

\* The entries load_fs_from_disk inserts, before fill_children: the blocks
\* of DATA_START .. BLOCK_COUNT - 1 whose bit is set, in ascending order, a
\* later block replacing an earlier one of the same inode.
LoadedBlocks(d) ==
    {b \in DATA_START..(BLOCK_COUNT - 1) : bitmap_get(read_bitmap(d), b)}

LoadedInodes(d) ==
    {deserialize_fs_entry(read_block(d, b)).inode : b \in LoadedBlocks(d)}

\* The block load_fs_from_disk records for inode i.
LoadedBlockOf(d, i) ==
    CHOOSE b \in LoadedBlocks(d) :
        /\ deserialize_fs_entry(read_block(d, b)).inode = i
        /\ \A c \in LoadedBlocks(d) :
               deserialize_fs_entry(read_block(d, c)).inode = i => c <= b

\* load_fs_from_disk on a filesystem just constructed over d: [fs, res],
\* res "Panic" when the data slice of a block leaves the block.
load_fs_from_disk(fs, order) ==
    LET d == fs.disk
    IN  IF \E b \in LoadedBlocks(d) : DeserializePanics(read_block(d, b))
        THEN [fs |-> fs, res |-> "Panic"]
        ELSE [fs |-> [fs EXCEPT
                        !.inode_block_table =
                            [i \in LoadedInodes(d) |-> LoadedBlockOf(d, i)],
                        !.files =
                            fill_children(
                                [i \in LoadedInodes(d) |->
                                    deserialize_fs_entry(read_block(d, LoadedBlockOf(d, i)))],
                                order)],
              res |-> "Ok"]

(***************************************************************************)
(* The archive: serde_json text of FilesystemMetadata, cut into chunks of  *)
(* MAX_QR_DATA_SIZE bytes, one image per chunk.  An image is identified    *)
(* with the base64 text its QR symbol carries; rendering a symbol and      *)
(* detecting it again are taken to return that text unchanged.  Texts are  *)
(* byte strings; the literals below are the ASCII codes of the text in the *)
(* comment above each.                                                     *)
(***************************************************************************)
\* {"version":
S_version == << 123, 34, 118, 101, 114, 115, 105, 111, 110, 34, 58 >>
\* ,"files":[
S_files == << 44, 34, 102, 105, 108, 101, 115, 34, 58, 91 >>
\* ],"next_inode":
S_next_inode == << 93, 44, 34, 110, 101, 120, 116, 95, 105, 110, 111, 100, 101, 34, 58 >>
\* ,"passphrase_hash":
S_passphrase_hash == << 44, 34, 112, 97, 115, 115, 112, 104, 114, 97, 115, 101, 95, 104, 97, 115, 104, 34, 58 >>
\* {"inode":
S_inode == << 123, 34, 105, 110, 111, 100, 101, 34, 58 >>
\* ,"name":
S_name == << 44, 34, 110, 97, 109, 101, 34, 58 >>
\* ,"qr_blocks":[
S_qr_blocks == << 44, 34, 113, 114, 95, 98, 108, 111, 99, 107, 115, 34, 58, 91 >>
\* ],"parent":
S_parent == << 93, 44, 34, 112, 97, 114, 101, 110, 116, 34, 58 >>
\* ,"attrs":{
S_attrs == << 44, 34, 97, 116, 116, 114, 115, 34, 58, 123 >>
\* |PASSPHRASE:
SENTINEL == << 124, 80, 65, 83, 83, 80, 72, 82, 65, 83, 69, 58 >>
\* The keys of SerializableFileAttr in declaration order, each as "key":
AttrKeys ==
    <<
       << 34, 105, 110, 111, 34, 58 >>,
       << 34, 115, 105, 122, 101, 34, 58 >>,
       << 34, 98, 108, 111, 99, 107, 115, 34, 58 >>,
       << 34, 97, 116, 105, 109, 101, 95, 115, 101, 99, 34, 58 >>,
       << 34, 97, 116, 105, 109, 101, 95, 110, 115, 101, 99, 34, 58 >>,
       << 34, 109, 116, 105, 109, 101, 95, 115, 101, 99, 34, 58 >>,
       << 34, 109, 116, 105, 109, 101, 95, 110, 115, 101, 99, 34, 58 >>,
       << 34, 99, 116, 105, 109, 101, 95, 115, 101, 99, 34, 58 >>,
       << 34, 99, 116, 105, 109, 101, 95, 110, 115, 101, 99, 34, 58 >>,
       << 34, 99, 114, 116, 105, 109, 101, 95, 115, 101, 99, 34, 58 >>,
       << 34, 99, 114, 116, 105, 109, 101, 95, 110, 115, 101, 99, 34, 58 >>,
       << 34, 107, 105, 110, 100, 34, 58 >>,
       << 34, 112, 101, 114, 109, 34, 58 >>,
       << 34, 110, 108, 105, 110, 107, 34, 58 >>,
       << 34, 117, 105, 100, 34, 58 >>,
       << 34, 103, 105, 100, 34, 58 >>,
       << 34, 114, 100, 101, 118, 34, 58 >>,
       << 34, 102, 108, 97, 103, 115, 34, 58 >>,
       << 34, 98, 108, 107, 115, 105, 122, 101, 34, 58 >>
    >>

RECURSIVE Dec(_)
\* The decimal digits of n (itoa).
Dec(n) == IF n < 10 THEN << 48 + n >> ELSE Dec(n \div 10) \o << 48 + (n % 10) >>

RECURSIVE Join(_, _)
\* The elements of parts, each a byte string, with sep between them.
Join(parts, sep) ==
    IF parts = << >> THEN << >>
    ELSE IF Len(parts) = 1 THEN parts[1]
    ELSE parts[1] \o sep \o Join(Tail(parts), sep)

\* A JSON string: quotes and backslashes are escaped.  (The strings of the
\* model hold no control characters, which serde_json would escape too.)
\* The i-th character takes the places i + escaped(i - 1) .. i + escaped(i).
JsonString(str) ==
    LET escaped(i) == Cardinality({k \in 1..i : str[k] \in {34, 92}})
        n == Len(str) + escaped(Len(str))
        body == [j \in 1..n |->
                    LET i == CHOOSE i \in 1..Len(str) :
                                 i + escaped(i - 1) <= j /\ j <= i + escaped(i)
                    IN  IF str[i] \in {34, 92} /\ j = i + escaped(i - 1)
                        THEN 92 ELSE str[i]]
    IN  << 34 >> \o body \o << 34 >>

\* SerializableFileAttr as the tuple of its 19 fields in declaration order.
from_file_attr(attr) ==
    << attr.ino, attr.size, attr.blocks,
       attr.atime[1], attr.atime[2], attr.mtime[1], attr.mtime[2],
       attr.ctime[1], attr.ctime[2], attr.crtime[1], attr.crtime[2],
       IF attr.kind = "Directory" THEN 4 ELSE 5,
       attr.perm, attr.nlink, attr.uid, attr.gid, attr.rdev, attr.flags,
       attr.blksize >>

\* Kinds other than directory and regular file are not part of the model:
\* every other number reads as a regular file, as the fallback arm does.
to_file_attr(sa) ==
    [ino |-> sa[1], size |-> sa[2], blocks |-> sa[3],
     atime |-> <<sa[4], sa[5]>>, mtime |-> <<sa[6], sa[7]>>,
     ctime |-> <<sa[8], sa[9]>>, crtime |-> <<sa[10], sa[11]>>,
     kind |-> IF sa[12] = 4 THEN "Directory" ELSE "RegularFile",
     perm |-> sa[13], nlink |-> sa[14], uid |-> sa[15], gid |-> sa[16],
     rdev |-> sa[17], flags |-> sa[18], blksize |-> sa[19]]

\* serde_json::to_string of a FileEntry [inode, name, qr_blocks, parent, attrs].
JsonFileEntry(e) ==
    S_inode \o Dec(e.inode)
    \o S_name \o JsonString(e.name)
    \o S_qr_blocks \o Join([i \in 1..Len(e.qr_blocks) |-> Dec(e.qr_blocks[i])], << 44 >>)
    \o S_parent \o Dec(e.parent)
    \o S_attrs
    \o Join([i \in 1..Len(AttrKeys) |-> AttrKeys[i] \o Dec(e.attrs[i])], << 44 >>)
    \o << 125, 125 >>

\* serde_json::to_string of FilesystemMetadata
\* [version, files, next_inode, passphrase_hash].
JsonMetadata(m) ==
    S_version \o Dec(m.version)
    \o S_files \o Join([i \in 1..Len(m.files) |-> JsonFileEntry(m.files[i])], << 44 >>)
    \o S_next_inode \o Dec(m.next_inode)
    \o S_passphrase_hash \o JsonString(m.passphrase_hash)
    \o << 125 >>

RECURSIVE Hex(_)
Hex(n) ==
    LET d == n % 16
        c == IF d < 10 THEN 48 + d ELSE 87 + d
    IN  IF n < 16 THEN << c >> ELSE Hex(n \div 16) \o << c >>

\* Four hexadecimal digits of w, with leading zeros.
Hex4(w) == LET h == Hex(65536 + w) IN SubSeq(h, 2, 5)

\* format!("{:x}", DefaultHasher digest of the passphrase).  The 64-bit
\* digest (SipHash of the standard library) is stood in for by four 16-bit
\* mixes of the passphrase's length, first and last byte: a deterministic
\* function of the passphrase, printed as sixteen hexadecimal digits.
hash_passphrase(passphrase) ==
    LET n == Len(passphrase)
        first == IF n = 0 THEN 0 ELSE passphrase[1]
        last == IF n = 0 THEN 0 ELSE passphrase[n]
        mix(a, b, c, d) == (n * a + first * b + last * c + d) % 65536
    IN  Hex4(4096 + (mix(40503, 257, 31, 7) % 61440)) \o Hex4(mix(31, 4099, 263, 11))
        \o Hex4(mix(8191, 37, 521, 13)) \o Hex4(mix(127, 1031, 16381, 17))

\* The base64 alphabet (standard, with padding).
B64Char(v) ==
    IF v < 26 THEN 65 + v
    ELSE IF v < 52 THEN 97 + (v - 26)
    ELSE IF v < 62 THEN 48 + (v - 52)
    ELSE IF v = 62 THEN 43 ELSE 47

\* The value of a base64 character, -1 for a byte outside the alphabet.
B64Value(c) ==
    IF c >= 65 /\ c <= 90 THEN c - 65
    ELSE IF c >= 97 /\ c <= 122 THEN c - 97 + 26
    ELSE IF c >= 48 /\ c <= 57 THEN c - 48 + 52
    ELSE IF c = 43 THEN 62
    ELSE IF c = 47 THEN 63 ELSE -1

\* BASE64.encode
Base64Encode(bytes) ==
    LET n == Len(bytes)
        at(i) == IF i <= n THEN bytes[i] ELSE 0
        group(g) == at(3 * g + 1) * 65536 + at(3 * g + 2) * 256 + at(3 * g + 3)
        sextet(g, k) ==
            CASE k = 0 -> group(g) \div 262144
              [] k = 1 -> (group(g) \div 4096) % 64
              [] k = 2 -> (group(g) \div 64) % 64
              [] OTHER -> group(g) % 64
    IN  [p \in 1..(4 * ((n + 2) \div 3)) |->
            LET g == (p - 1) \div 4
                k == (p - 1) % 4
            IN  IF 3 * g + k > n THEN 61 ELSE B64Char(sextet(g, k))]

\* BASE64.decode of text that ends in pad padding characters: Some(bytes),
\* or None for text that is not base64.
Base64DecodePadded(text, pad) ==
    LET m == Len(text)
        val(p) == IF text[p] = 61 THEN 0 ELSE B64Value(text[p])
        group(g) == val(4 * g + 1) * 262144 + val(4 * g + 2) * 4096
                    + val(4 * g + 3) * 64 + val(4 * g + 4)
        wellformed ==
            /\ m % 4 = 0
            /\ pad <= 2
            /\ \A p \in 1..m : IF text[p] = 61 THEN p > m - pad ELSE B64Value(text[p]) >= 0
    IN  IF ~wellformed THEN None
        ELSE Some([i \in 1..(3 * (m \div 4) - pad) |->
                      LET g == (i - 1) \div 3
                          k == (i - 1) % 3
                      IN  CASE k = 0 -> group(g) \div 65536
                            [] k = 1 -> (group(g) \div 256) % 256
                            [] OTHER -> group(g) % 256])

\* BASE64.decode
Base64Decode(text) ==
    Base64DecodePadded(text, Cardinality({p \in 1..Len(text) : text[p] = 61}))

\* binary_to_qr: the image written for binary_data.  An image is identified
\* with the payload of its QR symbol, the base64 text; at most 684
\* characters, within the capacity of a symbol at level H, so encoding
\* never fails.
binary_to_qr(binary_data) == Base64Encode(binary_data)

\* qr_to_binary: Some(bytes) decoded from the image, None for an error.
qr_to_binary(image) == Base64Decode(image)

split_data_for_qr(data) ==
    [k \in 1..((Len(data) + MAX_QR_DATA_SIZE - 1) \div MAX_QR_DATA_SIZE) |->
        SubSeq(data, (k - 1) * MAX_QR_DATA_SIZE + 1,
               Min(k * MAX_QR_DATA_SIZE, Len(data)))]

\* Number of images export writes for the data of one entry.
chunk_count(file) ==
    IF IsSome(file.data) THEN Len(split_data_for_qr(Unwrap(file.data))) ELSE 0

RECURSIVE SumTo(_, _)
\* f[1] + ... + f[n]
SumTo(f, n) == IF n = 0 THEN 0 ELSE f[n] + SumTo(f, n - 1)

\* dir with the images of imgs written over it: imgs is a sequence of
\* [at, bytes], image number and content.
WriteImages(dir, imgs) ==
    LET ats == {imgs[i].at : i \in 1..Len(imgs)}
    IN  [k \in DOMAIN dir \cup ats |->
            IF k \in ats
            THEN binary_to_qr(
                     imgs[CHOOSE i \in 1..Len(imgs) :
                        imgs[i].at = k /\ \A j \in (i + 1)..Len(imgs) : imgs[j].at # k].bytes)
            ELSE dir[k]]

\* The metadata export starts from: an entry per file in the order the
\* HashMap hands them out, with a zero for every chunk of its data.
InitialMetadata(fs_files, next_inode, passphrase, order) ==
    [version |-> 1,
     files |-> [i \in 1..Len(order) |->
                   [inode |-> fs_files[order[i]].inode,
                    name |-> fixed_name_to_str(fs_files[order[i]].name),
                    qr_blocks |-> Zeros(chunk_count(fs_files[order[i]])),
                    parent |-> fs_files[order[i]].parent,
                    attrs |-> from_file_attr(fs_files[order[i]].attrs)]],
     next_inode |-> next_inode,
     passphrase_hash |-> hash_passphrase(passphrase)]

\* The images export writes, in the order it writes them, as [at, bytes]:
\* the chunks of the first metadata text, the data of every entry from
\* image directory_blocks_count on, and the chunks of the final text, which
\* replace the first ones and go on after the data.
ExportedImages(fs_files, order, counts, metadata_chunks, final_metadata_chunks) ==
    LET directory_blocks_count == Len(metadata_chunks)
        n == Len(order)
    IN  [k \in 1..directory_blocks_count |-> [at |-> k - 1, bytes |-> metadata_chunks[k]]]
        \o Join([i \in 1..n |->
                    [c \in 1..counts[i] |->
                        [at |-> directory_blocks_count + SumTo(counts, i - 1) + c - 1,
                         bytes |-> split_data_for_qr(Unwrap(fs_files[order[i]].data))[c]]]],
                << >>)
        \o [k \in 1..Len(final_metadata_chunks) |->
               [at |-> IF k <= directory_blocks_count
                       THEN k - 1
                       ELSE directory_blocks_count + SumTo(counts, n)
                            + (k - directory_blocks_count) - 1,
                bytes |-> final_metadata_chunks[k]]]

\* export_files_as_qr on the entries fs_files with the counter next_inode:
\* the directory dir after the export and the metadata written.  order is
\* the order in which the HashMap hands out the entries (a sequence of the
\* inodes).  binary_to_qr never fails on a chunk, so the export always
\* succeeds.
export_files_as_qr(fs_files, next_inode, dir, passphrase, order) ==
    With([i \in 1..Len(order) |-> chunk_count(fs_files[order[i]])],
    LAMBDA counts :
    With(InitialMetadata(fs_files, next_inode, passphrase, order),
    LAMBDA metadata0 :
    With(split_data_for_qr(JsonMetadata(metadata0)),
    LAMBDA metadata_chunks :
    With([metadata0 EXCEPT !.files =
             [i \in 1..Len(order) |->
                 [metadata0.files[i] EXCEPT !.qr_blocks =
                     [c \in 1..counts[i] |->
                         Len(metadata_chunks) + SumTo(counts, i - 1) + c - 1]]]],
    LAMBDA metadata :
        [dir |-> WriteImages(dir,
                    ExportedImages(fs_files, order, counts, metadata_chunks,
                        split_data_for_qr(JsonMetadata(metadata) \o SENTINEL
                                          \o passphrase))),
         metadata |-> metadata,
         directory_blocks_count |-> Len(metadata_chunks)]))))

(***************************************************************************)
(* serde_json::from_str::<FilesystemMetadata>, as a parser of the text     *)
(* form to_string writes: the keys in declaration order, no white space.   *)
(* A parser takes the text and a position and returns [pos, val]: the      *)
(* position after what it read, 0 when the text does not parse.            *)
(***************************************************************************)
Fail == [pos |-> 0, val |-> << >>]

\* The position after lit when lit stands at pos, 0 otherwise.
ParseLit(text, pos, lit) ==
    IF pos # 0 /\ pos + Len(lit) - 1 <= Len(text)
       /\ SubSeq(text, pos, pos + Len(lit) - 1) = lit
    THEN pos + Len(lit) ELSE 0

IsDigit(b) == b >= 48 /\ b <= 57

RECURSIVE DecValue(_, _)
DecValue(digits, acc) ==
    IF digits = << >> THEN acc
    ELSE DecValue(Tail(digits), acc * 10 + (Head(digits) - 48))

\* An unsigned number: its digits, at most 10 (the model's numbers are
\* below 2^31), without a leading zero unless it is 0.
ParseNum(text, pos) ==
    IF pos = 0 \/ pos > Len(text) \/ ~IsDigit(text[pos]) THEN Fail
    ELSE With(SetMin({j \in pos..Min(Len(text), pos + 10) : ~IsDigit(text[j])}
                     \cup {Min(Len(text), pos + 10) + 1}),
              LAMBDA stop :
                  IF stop - pos > 10 \/ (stop - pos > 1 /\ text[pos] = 48) THEN Fail
                  ELSE [pos |-> stop, val |-> DecValue(SubSeq(text, pos, stop - 1), 0)])

\* Number of backslashes that stand immediately before position j.
BackslashesBefore(text, j) ==
    CHOOSE k \in 0..(j - 1) :
        /\ \A t \in 1..k : text[j - t] = 92
        /\ (j - k - 1 = 0 \/ text[j - k - 1] # 92)

\* The positions of text after pos, up to last, that hold byte and are not
\* escaped.
Unescaped(text, pos, last, byte) ==
    {j \in (pos + 1)..last : text[j] = byte /\ BackslashesBefore(text, j) % 2 = 0}

\* The content of a string between the quotes at pos and close, the
\* escapes \" and \\ undone; starts are the positions that start an escape.
StringContent(text, pos, close, starts) ==
    IF \E j \in starts : text[j + 1] \notin {34, 92} THEN Fail
    ELSE With(SelectSeq([j \in 1..(close - pos - 1) |-> pos + j],
                        LAMBDA j : j \notin starts),
              LAMBDA kept :
                  [pos |-> close + 1, val |-> [j \in 1..Len(kept) |-> text[kept[j]]]])

\* A string: from the quote at pos to the first quote that is not escaped.
ParseString(text, pos) ==
    IF pos = 0 \/ pos > Len(text) \/ text[pos] # 34 THEN Fail
    ELSE With(Unescaped(text, pos, Len(text), 34),
              LAMBDA closing :
                  IF closing = {} THEN Fail
                  ELSE StringContent(text, pos, SetMin(closing),
                                     Unescaped(text, pos, SetMin(closing) - 1, 92)))

RECURSIVE ParseNumList(_, _, _)
\* Numbers separated by commas, up to the closing bracket (not consumed).
ParseNumList(text, pos, acc) ==
    IF pos = 0 \/ pos > Len(text) THEN Fail
    ELSE IF text[pos] = 93 /\ acc = << >> THEN [pos |-> pos, val |-> acc]
    ELSE With(ParseNum(text, pos),
              LAMBDA n :
                  IF n.pos = 0 \/ n.pos > Len(text) THEN Fail
                  ELSE IF text[n.pos] = 44
                       THEN ParseNumList(text, n.pos + 1, Append(acc, n.val))
                       ELSE [pos |-> n.pos, val |-> Append(acc, n.val)])

RECURSIVE ParseAttrFields(_, _, _, _)
\* "key":number for the keys i.. of AttrKeys, separated by commas.
ParseAttrFields(text, pos, i, acc) ==
    IF i > Len(AttrKeys) THEN [pos |-> pos, val |-> acc]
    ELSE With(ParseNum(text, ParseLit(text,
                                      IF i = 1 THEN pos ELSE ParseLit(text, pos, << 44 >>),
                                      AttrKeys[i])),
              LAMBDA n :
                  IF n.pos = 0 THEN Fail
                  ELSE ParseAttrFields(text, n.pos, i + 1, Append(acc, n.val)))

\* The fields of a FileEntry after its name, in declaration order.
ParseFileEntryRest(text, inode, name) ==
    With(ParseNumList(text, ParseLit(text, name.pos, S_qr_blocks), << >>),
    LAMBDA blocks :
    With(ParseNum(text, ParseLit(text, blocks.pos, S_parent)),
    LAMBDA parent :
    With(ParseAttrFields(text, ParseLit(text, parent.pos, S_attrs), 1, << >>),
    LAMBDA attrs :
    With(ParseLit(text, attrs.pos, << 125, 125 >>),
    LAMBDA stop :
        IF inode.pos = 0 \/ name.pos = 0 \/ blocks.pos = 0 \/ parent.pos = 0
           \/ attrs.pos = 0 \/ stop = 0
        THEN Fail
        ELSE [pos |-> stop,
              val |-> [inode |-> inode.val, name |-> name.val,
                       qr_blocks |-> blocks.val, parent |-> parent.val,
                       attrs |-> attrs.val]]))))

ParseFileEntry(text, pos) ==
    With(ParseNum(text, ParseLit(text, pos, S_inode)),
    LAMBDA inode :
        ParseFileEntryRest(text, inode,
                           ParseString(text, ParseLit(text, inode.pos, S_name))))

RECURSIVE ParseFileEntries(_, _, _)
\* Entries separated by commas, up to the closing bracket (not consumed).
ParseFileEntries(text, pos, acc) ==
    IF pos = 0 \/ pos > Len(text) THEN Fail
    ELSE IF text[pos] = 93 /\ acc = << >> THEN [pos |-> pos, val |-> acc]
    ELSE With(ParseFileEntry(text, pos),
              LAMBDA e :
                  IF e.pos = 0 \/ e.pos > Len(text) THEN Fail
                  ELSE IF text[e.pos] = 44
                       THEN ParseFileEntries(text, e.pos + 1, Append(acc, e.val))
                       ELSE [pos |-> e.pos, val |-> Append(acc, e.val)])

\* None when the text is not the text of a FilesystemMetadata, Some(it)
\* otherwise.
ParseMetadata(text) ==
    With(ParseNum(text, ParseLit(text, 1, S_version)),
    LAMBDA version :
    With(ParseFileEntries(text, ParseLit(text, version.pos, S_files), << >>),
    LAMBDA entries :
    With(ParseNum(text, ParseLit(text, entries.pos, S_next_inode)),
    LAMBDA next_inode :
    With(ParseString(text, ParseLit(text, next_inode.pos, S_passphrase_hash)),
    LAMBDA hash :
        IF version.pos = 0 \/ entries.pos = 0 \/ next_inode.pos = 0
           \/ hash.pos = 0 \/ ParseLit(text, hash.pos, << 125 >>) # Len(text) + 1
        THEN None
        ELSE Some([version |-> version.val, files |-> entries.val,
                   next_inode |-> next_inode.val, passphrase_hash |-> hash.val])))))

(***************************************************************************)
(* import_files_from_qr.                                                   *)
(***************************************************************************)
\* String::from_utf8 succeeds.  (The only bytes above 127 in the model are
\* lone 0xAB bytes of file data, which are not UTF-8.)
IsUtf8(bytes) == \A j \in 1..Len(bytes) : bytes[j] < 128

\* str::find: the position of the first occurrence of pat in str, 0 if none.
Find(str, pat) ==
    LET at == {j \in 1..(Len(str) - Len(pat) + 1) :
                  str[j] = pat[1] /\ SubSeq(str, j, j + Len(pat) - 1) = pat}
    IN  IF at = {} THEN 0 ELSE SetMin(at)

\* The loop gives up once more than this many images have been read.
MAX_DIRECTORY_BLOCKS == 1000

\* Entries in ascending inode order (sort_by_key is stable).
SortByInode(entries) ==
    LET n == Len(entries)
        before(a, b) == entries[a].inode < entries[b].inode
                        \/ (entries[a].inode = entries[b].inode /\ a < b)
        rank(a) == Cardinality({b \in 1..n : before(b, a)}) + 1
    IN  [r \in 1..n |-> entries[CHOOSE a \in 1..n : rank(a) = r]]

RECURSIVE ImportEntries(_, _, _, _)
\* The loop over sorted_files from its i-th entry on: [fs, res].
ImportEntries(fs, dir, sorted_files, i) ==
    IF i > Len(sorted_files) THEN [fs |-> fs, res |-> "Ok"]
    ELSE LET file_entry == sorted_files[i]
             blocks == file_entry.qr_blocks
             readable(c) == blocks[c] \in DOMAIN dir
                            /\ qr_to_binary(dir[blocks[c]]) # None
         IN  IF \E c \in 1..Len(blocks) : ~readable(c)
             THEN [fs |-> fs, res |-> "DATA_BLOCK"]
             ELSE LET file_data == Join([c \in 1..Len(blocks) |->
                                            Unwrap(qr_to_binary(dir[blocks[c]]))], << >>)
                      r == push(fs, file_entry.inode, file_entry.name,
                                IF file_data = << >> THEN None ELSE Some(file_data),
                                file_entry.parent, to_file_attr(file_entry.attrs))
                  IN  IF r.res = "Ok"
                      THEN ImportEntries(r.fs, dir, sorted_files, i + 1)
                      ELSE [fs |-> r.fs,
                            res |-> IF r.res = "Panic" THEN "Panic" ELSE "PUSH"]

RECURSIVE ReadDirectory(_, _, _)
\* The loop that reads the directory images, from image current_block on,
\* combined being the bytes read so far: [res, text], with res "FOUND" and
\* text the combined bytes once they hold the sentinel, or the error the
\* loop leaves with: "DECODE" (Failed to decode directory block),
\* "TOO_MANY" (Too many directory blocks) or "NO_SENTINEL" (no image left).
ReadDirectory(dir, current_block, combined) ==
    LET \* one turn of the loop, data being what qr_to_binary returned and
        \* combined_data the bytes read up to and including it
        turn(data, combined_data) ==
            IF data = None THEN [res |-> "DECODE", text |-> << >>]
            ELSE IF IsUtf8(combined_data) /\ Find(combined_data, SENTINEL) # 0
                 THEN [res |-> "FOUND", text |-> combined_data]
            ELSE IF current_block + 1 > MAX_DIRECTORY_BLOCKS
                 THEN [res |-> "TOO_MANY", text |-> << >>]
            ELSE ReadDirectory(dir, current_block + 1, combined_data)
        read(data) ==
            turn(data, IF data = None THEN combined ELSE combined \o Unwrap(data))
    IN  IF current_block \notin DOMAIN dir
        THEN [res |-> "NO_SENTINEL", text |-> << >>]
        ELSE read(qr_to_binary(dir[current_block]))

\* The rest of import_files_from_qr once the passphrase has matched:
\* parsed is what serde_json made of the metadata text.
ImportMetadata(fs, counter, dir, parsed) ==
    IF parsed = None
    THEN [fs |-> fs, counter |-> counter, res |-> "CORRUPT_METADATA"]
    ELSE LET fs1 == [fs EXCEPT !.files = << >>, !.inode_block_table = << >>]
             r == ImportEntries(fs1, dir, SortByInode(Unwrap(parsed).files), 1)
         IN  [fs |-> r.fs, counter |-> Unwrap(parsed).next_inode, res |-> r.res]

\* PassphraseGate with the model reset moved in front of the comparison.
PassphraseGate_reset_first(fs, counter, dir, expected_passphrase, combined_str, passphrase_pos) ==
    LET metadata_str == SubSeq(combined_str, 1, passphrase_pos - 1)
        actual_passphrase == SubSeq(combined_str, passphrase_pos + Len(SENTINEL),
                                    Len(combined_str))
        fs1 == [fs EXCEPT !.files = << >>, !.inode_block_table = << >>]
    IN  IF actual_passphrase # expected_passphrase
        THEN [fs |-> fs1, counter |-> counter, res |-> "WRONG_PASSPHRASE"]
        ELSE ImportMetadata(fs1, counter, dir, ParseMetadata(metadata_str))

\* The passphrase gate on the combined text, the sentinel being at
\* passphrase_pos.
PassphraseGate(fs, counter, dir, expected_passphrase, combined_str, passphrase_pos) ==
    LET metadata_str == SubSeq(combined_str, 1, passphrase_pos - 1)
        actual_passphrase == SubSeq(combined_str, passphrase_pos + Len(SENTINEL),
                                    Len(combined_str))
    IN  IF actual_passphrase # expected_passphrase
        THEN [fs |-> fs, counter |-> counter, res |-> "WRONG_PASSPHRASE"]
        ELSE ImportMetadata(fs, counter, dir, ParseMetadata(metadata_str))

\* import_files_from_qr, the images having been read with result rd.
ImportAfterRead(fs, counter, dir, expected_passphrase, rd) ==
    IF rd.res # "FOUND"
    THEN [fs |-> fs, counter |-> counter, res |-> rd.res]
    ELSE PassphraseGate(fs, counter, dir, expected_passphrase, rd.text,
                        Find(rd.text, SENTINEL))

\* [fs, counter, res]: the filesystem and INODE_COUNTER after the call and
\* its result: "Ok", or the error: an error of ReadDirectory,
\* "WRONG_PASSPHRASE" (Incorrect passphrase), "CORRUPT_METADATA" (Failed to
\* parse metadata), "DATA_BLOCK" (Failed to decode data block), "PUSH"
\* (Failed to push file), or "Panic".
import_files_from_qr(fs, counter, dir, expected_passphrase) ==
    ImportAfterRead(fs, counter, dir, expected_passphrase, ReadDirectory(dir, 0, << >>))

(***************************************************************************)
(* State.  files, inode_block_table, bitmap and disk are the fields of the *)
(* QRFileSystem, INODE_COUNTER is the process-wide counter, reply is what  *)
(* the last handler answered.  phase is "mounted" while the FUSE session   *)
(* serves requests, "panicked" once a handler has panicked, "exported"     *)
(* once destroy has written the archive, and "imported" or                 *)
(* "import_failed" once a later run has imported it into a fresh           *)
(* filesystem, which the QRFileSystem fields then describe.  archive is    *)
(* the directory of QR images (image number -> image), and exported        *)
(* records the last export: None, or Some([files, counter, passphrase])    *)
(* with the entries and the counter it wrote and the passphrase it was     *)
(* given.  stream is the enumeration of a directory the kernel has in      *)
(* progress: None, or the directory, the offset of the last entry          *)
(* consumed, the entries consumed so far, and the offset, buffer capacity  *)
(* and entries of the last readdir call.  issued is history: the root's id *)
(* and the ids create and mkdir have handed out so far.  lector is the     *)
(* state of the phone-transfer receiver (bin/lector.rs), None when it does *)
(* not run.  scan is the loop of import_files_from_qr that reads the       *)
(* directory images, when the model follows it turn by turn: None          *)
(* otherwise.                                                              *)
(***************************************************************************)
VARIABLES files, inode_block_table, bitmap, disk, INODE_COUNTER, phase, reply,
          archive, exported, stream, issued, lector, scan

vars == <<files, inode_block_table, bitmap, disk, INODE_COUNTER, phase, reply,
          archive, exported, stream, issued, lector, scan>>

Self == [files |-> files, inode_block_table |-> inode_block_table,
         bitmap |-> bitmap, disk |-> disk]

Become(fs) ==
    /\ files' = fs.files
    /\ inode_block_table' = fs.inode_block_table
    /\ bitmap' = fs.bitmap
    /\ disk' = fs.disk

(***************************************************************************)
(* Inputs of the handlers.                                                 *)
(***************************************************************************)
\* "a", "b"
Names == {<<97>>, <<98>>}
\* Inode arguments: 0, every id the model can issue, and MaxInode, which is
\* never issued.
InodeArgs == 0..MaxInode
RootName == <<47>>

\* bin/mount.rs on a new disk file: initialize_new_disk, QRFileSystem::new,
\* load_fs_from_disk (nothing to load), then the root is pushed and the
\* counter set to 2.
MountNewDisk ==
    LET fs0 == QRFileSystem_new(initialize_new_disk)
        r == push(fs0, 1, RootName, None, 0, get_default_attrs(1, 0, TRUE))
    IN  [r.fs EXCEPT !.disk = write_u64(@, 2)]

Init ==
    /\ files = MountNewDisk.files
    /\ inode_block_table = MountNewDisk.inode_block_table
    /\ bitmap = MountNewDisk.bitmap
    /\ disk = MountNewDisk.disk
    /\ INODE_COUNTER = 2
    /\ phase = "mounted"
    /\ reply = [op |-> "mount", res |-> "ok", ino |-> 1]
    /\ archive = << >>
    /\ exported = None
    /\ stream = None
    /\ issued = {1}
    /\ lector = None
    /\ scan = None

(***************************************************************************)
(* Handlers (impl Filesystem for QRFileSystem).                            *)
(***************************************************************************)
\* An enumeration in progress records that the tree changed under it.
Touched(s) == IF s = None THEN None ELSE Some([Unwrap(s) EXCEPT !.mutated = TRUE])

\* create and mkdir differ in the kind of the entry only.
Insertion(op, parent, name, is_folder) ==
    LET inode == INODE_COUNTER
        d1 == write_u64(disk, inode)
        r == push([Self EXCEPT !.disk = d1], inode, name, None, parent,
                  get_default_attrs(inode, 0, is_folder))
    IN  /\ phase = "mounted"
        /\ issued' = issued \cup {inode}
        /\ UNCHANGED <<lector, scan>>
        /\ UNCHANGED <<archive, exported>>
        /\ stream' = Touched(stream)
        /\ INODE_COUNTER < MaxInode
        /\ INODE_COUNTER' = INODE_COUNTER + 1
        /\ Become(r.fs)
        /\ phase' = IF r.res = "Panic" THEN "panicked" ELSE phase
        /\ reply' = [op |-> op, ino |-> inode,
                     res |-> CASE r.res = "Panic" -> "panic"
                               [] r.res = "Err" -> "EIO"
                               [] OTHER -> "ok"]

create(parent, name) == Insertion("create", parent, name, FALSE)

mkdir(parent, name) == Insertion("mkdir", parent, name, TRUE)

Filesystem_rename(parent, name, newparent, newname) ==
    LET r == rename(Self, parent, name, newparent, newname)
    IN  /\ phase = "mounted"
        /\ UNCHANGED <<issued, lector, scan>>
        /\ UNCHANGED <<archive, exported>>
        /\ stream' = Touched(stream)
        /\ Become(r.fs)
        /\ phase' = IF r.res = "Panic" THEN "panicked" ELSE phase
        /\ reply' = [op |-> "rename", ino |-> 0,
                     res |-> IF r.res = "Panic" THEN "panic" ELSE "ok"]
        /\ UNCHANGED INODE_COUNTER

\* The verdict of rmdir's scan of the parent's children: [err, ino], with
\* err "" and ino the target when the scan finds an empty directory.
rmdir_scan(fs_files, parent, name) ==
    IF parent \notin DOMAIN fs_files THEN [err |-> "ENOENT", ino |-> 0]
    ELSE LET found == FindChild(fs_files, parent, name)
         IN  IF found = None THEN [err |-> "ENOENT", ino |-> 0]
             ELSE IF fs_files[Unwrap(found)].attrs.kind # "Directory"
                  THEN [err |-> "ENOTDIR", ino |-> Unwrap(found)]
             ELSE IF fs_files[Unwrap(found)].children # << >>
                  THEN [err |-> "ENOTEMPTY", ino |-> Unwrap(found)]
             ELSE [err |-> "", ino |-> Unwrap(found)]

rmdir_target(parent, name) == rmdir_scan(files, parent, name)

\* What rmdir does once the scan has found target_inode: the block is freed
\* in the bitmap of the backing file, the table entry dropped, the inode
\* taken out of the parent's children and the entry removed.  The bitmap
\* field of the QRFileSystem is not touched.
rmdir_removal(fs, parent, target_inode) ==
    LET has_block == target_inode \in DOMAIN fs.inode_block_table
        files1 == IF parent \in DOMAIN fs.files
                  THEN [fs.files EXCEPT ![parent].children = Retain(@, target_inode)]
                  ELSE fs.files
    IN  [files |-> Remove(files1, target_inode),
         inode_block_table |-> IF has_block
                               THEN Remove(fs.inode_block_table, target_inode)
                               ELSE fs.inode_block_table,
         bitmap |-> fs.bitmap,
         disk |-> IF has_block
                  THEN free_block(fs.disk, fs.inode_block_table[target_inode])
                  ELSE fs.disk]

rmdir(parent, name) ==
    LET t == rmdir_target(parent, name)
    IN  /\ phase = "mounted"
        /\ UNCHANGED <<issued, lector, scan>>
        /\ IF t.err # ""
           THEN /\ reply' = [op |-> "rmdir", ino |-> 0, res |-> t.err]
                /\ UNCHANGED <<files, inode_block_table, bitmap, disk>>
           ELSE /\ Become(rmdir_removal(Self, parent, t.ino))
                /\ reply' = [op |-> "rmdir", ino |-> t.ino, res |-> "ok"]
        /\ stream' = IF t.err # "" THEN stream ELSE Touched(stream)
        /\ UNCHANGED <<INODE_COUNTER, phase, archive, exported>>

\* A write that resizes the buffer to required_size whatever its length.
WriteIntoResized(buffer, offset, data) ==
    LET required_size == offset + Len(data)
    IN  [i \in 1..required_size |->
            IF i > offset THEN data[i - offset]
            ELSE IF i <= Len(buffer) THEN buffer[i] ELSE 0]

\* buffer resized to required_size with zeros, then data copied at offset.
WriteInto(buffer, offset, data) ==
    LET required_size == offset + Len(data)
        n == Max(Len(buffer), required_size)
    IN  [i \in 1..n |->
            IF i > offset /\ i <= offset + Len(data) THEN data[i - offset]
            ELSE IF i <= Len(buffer) THEN buffer[i] ELSE 0]

write(ino, offset, data) ==
    /\ phase = "mounted"
    /\ UNCHANGED <<issued, lector, scan>>
    /\ IF ino \notin DOMAIN files \/ files[ino].attrs.kind = "Directory"
       THEN /\ reply' = [op |-> "write", ino |-> ino, res |-> "ENOENT"]
            /\ UNCHANGED <<files, disk, phase>>
       ELSE LET old == IF files[ino].data = None THEN << >>
                       ELSE Unwrap(files[ino].data)
                buffer == WriteInto(old, offset, data)
                files1 == [files EXCEPT ![ino].data = Some(buffer),
                                        ![ino].attrs.size = Len(buffer)]
            IN  /\ files' = files1
                /\ IF ino \notin DOMAIN inode_block_table
                   THEN /\ phase' = "panicked"
                        /\ reply' = [op |-> "write", ino |-> ino, res |-> "panic"]
                        /\ UNCHANGED disk
                   ELSE /\ disk' = write_block(disk, inode_block_table[ino],
                                       serialize_fs_entry_to_disk(files1[ino])).disk
                        /\ reply' = [op |-> "write", ino |-> ino, res |-> "ok",
                                     written |-> Len(data)]
                        /\ UNCHANGED phase
    /\ UNCHANGED <<inode_block_table, bitmap, INODE_COUNTER, archive, exported, stream>>

\* The reply carries the whole data of the file: _offset and _size are not
\* used.
read(ino, offset, size) ==
    /\ phase = "mounted"
    /\ UNCHANGED <<issued, lector, scan>>
    /\ reply' = IF ino \notin DOMAIN files \/ files[ino].attrs.kind = "Directory"
                THEN [op |-> "read", ino |-> ino, res |-> "ENOENT"]
                ELSE [op |-> "read", ino |-> ino, res |-> "ok",
                      data |-> IF files[ino].data = None THEN << >>
                               ELSE Unwrap(files[ino].data)]
    /\ UNCHANGED <<files, inode_block_table, bitmap, disk, INODE_COUNTER, phase,
                   archive, exported, stream>>

\* Vec::resize(sz, 0)
Resize(v, sz) == [i \in 1..sz |-> IF i <= Len(v) THEN v[i] ELSE 0]

setattr(ino, mode, size) ==
    /\ phase = "mounted"
    /\ UNCHANGED <<issued, lector, scan>>
    /\ IF ino \notin DOMAIN files
       THEN /\ reply' = [op |-> "setattr", ino |-> ino, res |-> "ENOENT"]
            /\ UNCHANGED <<files, disk, phase>>
       ELSE LET f0 == files[ino]
                f1 == IF IsSome(mode)
                      THEN [f0 EXCEPT !.attrs.perm = Unwrap(mode) % 512]
                      ELSE f0
                f2 == IF IsSome(size)
                      THEN [f1 EXCEPT !.data = IF IsSome(f1.data)
                                               THEN Some(Resize(Unwrap(f1.data), Unwrap(size)))
                                               ELSE f1.data,
                                      !.attrs.size = Unwrap(size)]
                      ELSE f1
            IN  /\ files' = [files EXCEPT ![ino] = f2]
                /\ IF ino \notin DOMAIN inode_block_table
                   THEN /\ phase' = "panicked"
                        /\ reply' = [op |-> "setattr", ino |-> ino, res |-> "panic"]
                        /\ UNCHANGED disk
                   ELSE /\ disk' = write_block(disk, inode_block_table[ino],
                                       serialize_fs_entry_to_disk(f2)).disk
                        /\ reply' = [op |-> "setattr", ino |-> ino, res |-> "ok"]
                        /\ UNCHANGED phase
    /\ UNCHANGED <<inode_block_table, bitmap, INODE_COUNTER, archive, exported, stream>>

\* The reply tells the inode of the first child of parent with that name.
lookup(parent, name) ==
    LET found == IF parent \in DOMAIN files THEN FindChild(files, parent, name)
                 ELSE None
    IN  /\ phase = "mounted"
        /\ UNCHANGED <<issued, lector, scan>>
        /\ reply' = IF found = None
                     THEN [op |-> "lookup", ino |-> 0, res |-> "ENOENT"]
                     ELSE [op |-> "lookup", ino |-> Unwrap(found), res |-> "ok"]
        /\ UNCHANGED <<files, inode_block_table, bitmap, disk, INODE_COUNTER, phase,
                       archive, exported, stream>>

\* "." and ".."
Dot == <<46>>
DotDot == <<46, 46>>

\* What readdir hands to reply.add, in order, for a directory of the map,
\* index being the number of children it skips: [ino, offset, kind, name],
\* offset being the one the kernel hands back once it has consumed the
\* entry.
readdir_listing(fs_files, ino, offset, index) ==
    LET dir == fs_files[ino]
        parent == IF dir.parent # 0 THEN dir.parent ELSE ino
        dots == IF offset = 0
                THEN << [ino |-> ino, offset |-> 1, kind |-> "Directory", name |-> Dot],
                        [ino |-> parent, offset |-> 2, kind |-> "Directory",
                         name |-> DotDot] >>
                ELSE << >>
        children == dir.children
        \* enumerate().skip(index), 0-based positions i
        rest == [k \in 1..Max(Len(children) - index, 0) |-> index + k - 1]
        present == SelectSeq(rest, LAMBDA i : children[i + 1] \in DOMAIN fs_files)
    IN  dots \o [k \in 1..Len(present) |->
                    LET child == fs_files[children[present[k] + 1]]
                    IN  [ino |-> child.inode, offset |-> 3 + present[k],
                         kind |-> child.attrs.kind,
                         name |-> fixed_name_to_str(child.name)]]

\* A readdir that resumes one child too late.
readdir_entries_late(fs_files, ino, offset) ==
    readdir_listing(fs_files, ino, offset, Max(offset - 1, 0))

\* let mut index = offset - 2; if index < 0 { index = 0; }
readdir_entries(fs_files, ino, offset) ==
    readdir_listing(fs_files, ino, offset, Max(offset - 2, 0))

\* ReplyDirectory: add() stores an entry while the buffer has room and
\* refuses it afterwards; readdir ignores what add() returns.
ReplyBuffer(entries, capacity) == SubSeq(entries, 1, Min(Len(entries), capacity))

\* The kernel starts to enumerate directory ino.
opendir(ino) ==
    /\ phase = "mounted"
    /\ UNCHANGED <<issued, lector, scan>>
    /\ stream' = Some([ino |-> ino, offset |-> 0, got |-> << >>, eof |-> FALSE,
                       mutated |-> FALSE, calls |-> 0,
                       from |-> 0, capacity |-> 0, last |-> << >>])
    /\ reply' = [op |-> "opendir", ino |-> ino, res |-> "ok"]
    /\ UNCHANGED <<files, inode_block_table, bitmap, disk, INODE_COUNTER, phase,
                   archive, exported>>

\* One readdir call of the enumeration in progress, at the offset of the
\* last entry the kernel consumed, with a buffer of the given capacity; the
\* kernel consumes what the buffer holds.
readdir(capacity) ==
    /\ phase = "mounted"
    /\ UNCHANGED <<issued, lector, scan>>
    /\ stream # None
    /\ ~Unwrap(stream).eof
    /\ LET st == Unwrap(stream)
           ino == st.ino
       IN  IF ino \notin DOMAIN files \/ files[ino].attrs.kind # "Directory"
           THEN /\ reply' = [op |-> "readdir", ino |-> ino, res |-> "ENOENT"]
                /\ stream' = Some([st EXCEPT !.eof = TRUE, !.mutated = TRUE])
           ELSE LET entries == ReplyBuffer(readdir_entries(files, ino, st.offset),
                                           capacity)
                IN  /\ reply' = [op |-> "readdir", ino |-> ino, res |-> "ok"]
                    /\ stream' = Some([st EXCEPT
                           !.eof = entries = << >>,
                           !.got = @ \o entries,
                           !.offset = IF entries = << >> THEN @
                                      ELSE entries[Len(entries)].offset,
                           !.calls = @ + 1,
                           !.from = st.offset,
                           !.capacity = capacity,
                           !.last = entries])
    /\ UNCHANGED <<files, inode_block_table, bitmap, disk, INODE_COUNTER, phase,
                   archive, exported>>

(***************************************************************************)
(* Export on unmount and import into a fresh filesystem: destroy() exports *)
(* with the passphrase given at mount (bin/mountqrfs.rs); a later run of   *)
(* bin/import.rs initialises a new disk file, imports into a new           *)
(* QRFileSystem and, on success, writes the counter cell.                  *)
(***************************************************************************)
\* The sequences that enumerate the set S once each: the orders in which a
\* HashMap may hand out its keys.
Orders(S) ==
    {o \in [1..Cardinality(S) -> S] : \A a, b \in 1..Cardinality(S) : o[a] = o[b] => a = b}

destroy(passphrase, order) ==
    /\ phase = "mounted"
    /\ UNCHANGED <<issued, lector, scan>>
    /\ archive' = export_files_as_qr(files, INODE_COUNTER, archive, passphrase, order).dir
    /\ exported' = Some([files |-> files, counter |-> INODE_COUNTER,
                         passphrase |-> passphrase])
    /\ phase' = "exported"
    /\ reply' = [op |-> "export", ino |-> 0, res |-> "ok"]
    /\ UNCHANGED <<files, inode_block_table, bitmap, disk, INODE_COUNTER, stream>>

import(passphrase) ==
    LET r == import_files_from_qr(QRFileSystem_new(initialize_new_disk), 1,
                                  archive, passphrase)
    IN  /\ phase = "exported"
        /\ UNCHANGED <<issued, lector, scan>>
        /\ Become(IF r.res = "Ok"
                  THEN [r.fs EXCEPT !.disk = write_u64(@, r.counter)]
                  ELSE r.fs)
        /\ INODE_COUNTER' = r.counter
        /\ phase' = IF r.res = "Ok" THEN "imported" ELSE "import_failed"
        /\ reply' = [op |-> "import", ino |-> 0, res |-> r.res, pass |-> passphrase]
        /\ UNCHANGED <<archive, exported, stream>>

(***************************************************************************)
(* Specifications.                                                         *)
(***************************************************************************)
\* Inputs of write and setattr: a byte at the start of the file or right
\* after the last byte an entry's block has room for.
WriteOffsets == {0, BLOCK_SIZE - ENTRY_HEADER}
WriteData == {<< 171 >>}
Modes == {None, Some(420)}
Sizes == {None, Some(2)}
\* The inodes write and setattr are called on: the root and the first entry
\* created.
DataInodes == {1, 2}

\* Passphrases: n times "x".
Pass(n) == [i \in 1..n |-> 120]
PassLen == 73
Passphrases == {Pass(PassLen - 1), Pass(PassLen)}

CreateStep == \E parent \in InodeArgs, name \in Names : create(parent, name)
MkdirStep == \E parent \in InodeArgs, name \in Names : mkdir(parent, name)
RmdirStep == \E parent \in InodeArgs, name \in Names : rmdir(parent, name)
RenameStep ==
    \E parent \in InodeArgs, name \in Names, newparent \in InodeArgs, newname \in Names :
        Filesystem_rename(parent, name, newparent, newname)
WriteStep ==
    \E ino \in DataInodes, offset \in WriteOffsets, data \in WriteData :
        write(ino, offset, data)
SetattrStep == \E ino \in DataInodes, mode \in Modes, size \in Sizes : setattr(ino, mode, size)
\* The calls the kernel makes in the root directory.
RootCreateStep == \E name \in Names : create(1, name)
RootMkdirStep == \E name \in Names : mkdir(1, name)
RootRmdirStep == \E name \in Names : rmdir(1, name)
DestroyStep ==
    \E passphrase \in Passphrases, order \in Orders(DOMAIN files) :
        destroy(passphrase, order)
ImportStep == \E passphrase \in Passphrases : import(passphrase)

\* The tree operations, with arbitrary inode arguments.
NextTree == CreateStep \/ MkdirStep \/ RmdirStep \/ RenameStep

SpecTree == Init /\ [][NextTree]_vars

\* The root directory's entries, their data and attributes.
NextData ==
    RootCreateStep \/ RootMkdirStep \/ RootRmdirStep \/ WriteStep \/ SetattrStep

SpecData == Init /\ [][NextData]_vars

\* A mount that creates files in the root directory and is unmounted, and
\* a later run that imports the archive.
Next == RootCreateStep \/ WriteStep \/ DestroyStep \/ ImportStep

Spec == Init /\ [][Next]_vars

(***************************************************************************)
(* Properties.                                                             *)
(***************************************************************************)
\* The bytes of an entry: an absent data is the empty byte string.
DataOf(f) == IF IsSome(f.data) THEN Unwrap(f.data) ELSE << >>

\* The tree an observer sees: inode -> name, parent, kind, perm, data.
Observable(fs_files) ==
    [i \in DOMAIN fs_files |->
        [name |-> fixed_name_to_str(fs_files[i].name),
         parent |-> fs_files[i].parent,
         kind |-> fs_files[i].attrs.kind,
         perm |-> fs_files[i].attrs.perm,
         data |-> DataOf(fs_files[i])]]

\* The last step was an import of the exported archive.
Imported == phase \in {"imported", "import_failed"} /\ reply.op = "import"

\* C1: an import that presents the passphrase of the export succeeds, and
\* the map inode -> {name, parent, kind, perm, data} it builds is the one
\* that was exported.
C1_RoundTrip ==
    (Imported /\ reply.pass = Unwrap(exported).passphrase)
        => /\ reply.res = "Ok"
           /\ Observable(files) = Observable(Unwrap(exported).files)

\* C2: an import that presents the passphrase of the export passes the
\* passphrase gate: the sentinel is found, the text after it equals the
\* passphrase and the text before it parses, wherever the chunk boundaries
\* fall.
C2_RightPassphrasePasses ==
    (Imported /\ reply.pass = Unwrap(exported).passphrase)
        => reply.res \notin {"WRONG_PASSPHRASE", "NO_SENTINEL", "CORRUPT_METADATA",
                             "DECODE", "TOO_MANY"}

\* C3: an import that presents a passphrase other than the one of the
\* export, a proper prefix of it included, fails with WRONG_PASSPHRASE.
C3_WrongPassphraseFails ==
    (Imported /\ reply.pass # Unwrap(exported).passphrase)
        => reply.res = "WRONG_PASSPHRASE"

\* C4: exactly one entry has inode 1 and parent 0, and every other entry
\* has a parent other than 0 that is an existing directory.
C4_RootAndParents ==
    /\ Cardinality({i \in DOMAIN files :
                        files[i].inode = 1 /\ files[i].parent = 0}) = 1
    /\ \A i \in DOMAIN files :
           (files[i].inode # 1 \/ files[i].parent # 0)
               => /\ files[i].parent # 0
                  /\ files[i].parent \in DOMAIN files
                  /\ files[files[i].parent].attrs.kind = "Directory"

\* Number of times inode c stands in the children of entry p.
Occurrences(p, c) ==
    Cardinality({k \in 1..Len(files[p].children) : files[p].children[k] = c})

\* C5: parent and children agree: every entry other than the root is
\* exactly once in the children of its parent, and every id in the
\* children of an entry is an existing entry whose parent is that entry.
C5_ParentChildrenAgree ==
    /\ \A i \in DOMAIN files :
           files[i].parent # 0
               => /\ files[i].parent \in DOMAIN files
                  /\ Occurrences(files[i].parent, i) = 1
    /\ \A p \in DOMAIN files :
           \A k \in 1..Len(files[p].children) :
               /\ files[p].children[k] \in DOMAIN files
               /\ files[files[p].children[k]].parent = p

RECURSIVE ParentAfter(_, _)
\* The entry k parent steps above entry i, 0 once the chain has left the
\* map.
ParentAfter(i, k) ==
    IF i \notin DOMAIN files THEN 0
    ELSE IF k = 0 THEN i
    ELSE ParentAfter(files[i].parent, k - 1)

\* C6: the parent graph is acyclic: no entry is reached again by following
\* parent pointers from it.
C6_Acyclic ==
    \A i \in DOMAIN files : \A k \in 1..MaxInode : ParentAfter(i, k) # i

\* C7: the children of one directory have pairwise distinct names.
C7_SiblingNamesDistinct ==
    \A p \in DOMAIN files :
        \A a, b \in 1..Len(files[p].children) :
            (/\ a # b
             /\ files[p].children[a] \in DOMAIN files
             /\ files[p].children[b] \in DOMAIN files)
                => fixed_name_to_str(files[files[p].children[a]].name)
                   # fixed_name_to_str(files[files[p].children[b]].name)

\* C8: a directory has no data; the data of a regular file is absent with
\* size 0 or has exactly attrs.size bytes.
C8_DataMatchesSize ==
    \A i \in DOMAIN files :
        IF files[i].attrs.kind = "Directory"
        THEN files[i].data = None
        ELSE \/ files[i].data = None /\ files[i].attrs.size = 0
             \/ IsSome(files[i].data) /\ Len(Unwrap(files[i].data)) = files[i].attrs.size

\* What load_fs_from_disk and the memory are compared on.
Stored(fs_files) ==
    [i \in DOMAIN fs_files |->
        [name |-> fixed_name_to_str(fs_files[i].name),
         parent |-> fs_files[i].parent,
         kind |-> fs_files[i].attrs.kind,
         perm |-> fs_files[i].attrs.perm,
         size |-> fs_files[i].attrs.size,
         data |-> DataOf(fs_files[i])]]

\* C9: once a handler has answered success, load_fs_from_disk on the
\* backing file succeeds and yields the entries of the memory: the same
\* inodes with the same name, parent, kind, perm, size and data.
C9_DiskRefinesMemory ==
    (phase = "mounted" /\ reply.res = "ok")
        => \A order \in Orders(LoadedInodes(disk)) :
               LET loaded == load_fs_from_disk(QRFileSystem_new(disk), order)
               IN  /\ loaded.res = "Ok"
                   /\ Stored(loaded.fs.files) = Stored(files)

\* C10: a write that leaves the file with more bytes than the block has
\* room for after the header is answered with an error, not with success.
C10_OversizedWriteRefused ==
    (/\ reply.op = "write"
     /\ reply.ino \in DOMAIN files
     /\ Len(DataOf(files[reply.ino])) > BLOCK_SIZE - ENTRY_HEADER)
        => reply.res # "ok"

\* The gate of the import has let the archive through: the sentinel was
\* found, the passphrase accepted and the metadata parsed.
PastGate ==
    reply.res \notin {"WRONG_PASSPHRASE", "NO_SENTINEL", "CORRUPT_METADATA",
                      "DECODE", "TOO_MANY"}

\* The exported regular files whose data does not fit an entry block.
LargeFiles ==
    {i \in DOMAIN Unwrap(exported).files :
        Len(DataOf(Unwrap(exported).files[i])) > BLOCK_SIZE - ENTRY_HEADER}

\* C11: an archive that holds a file of more than 424 bytes and passes the
\* gate is imported with success, and every such file has the exported
\* bytes afterwards.
C11_LargeFileImports ==
    (Imported /\ PastGate /\ LargeFiles # {})
        => /\ reply.res = "Ok"
           /\ \A i \in LargeFiles :
                  /\ i \in DOMAIN files
                  /\ DataOf(files[i]) = DataOf(Unwrap(exported).files[i])

\* A mount that makes directories in the root, moves them into the first
\* two entries created and is unmounted with a one-byte passphrase, and a
\* later run that imports the archive with that passphrase.
MoveStep ==
    \E name \in Names, newparent \in {2, 3} :
        Filesystem_rename(1, name, newparent, name)
MoveDestroyStep == \E order \in Orders(DOMAIN files) : destroy(Pass(1), order)
MoveImportStep == import(Pass(1))

NextMove == RootMkdirStep \/ MoveStep \/ MoveDestroyStep \/ MoveImportStep

SpecMove == Init /\ [][NextMove]_vars

\* C12: after a successful import every entry whose parent is an entry of
\* the map stands in the children of that parent, also when its inode is
\* smaller than the parent's.
C12_ImportRebuildsChildren ==
    phase = "imported"
        => \A e \in DOMAIN files :
               files[e].parent \in DOMAIN files
                   => \E k \in 1..Len(files[files[e].parent].children) :
                          files[files[e].parent].children[k] = e

\* The entries after rename(p1, n1, p2, n2) followed by rename(p2, n2, p1, n1).
ThereAndBack(p1, n1, p2, n2) ==
    rename(rename(Self, p1, n1, p2, n2).fs, p2, n2, p1, n1).fs.files

\* C13: for every entry named n1 in directory p1 and every p2, n2, the two
\* renames there and back leave every entry's name, parent and data as
\* they were.
C13_RenameThereAndBack ==
    phase = "mounted"
        => \A p1 \in DOMAIN files, n1 \in Names, p2 \in InodeArgs, n2 \in Names :
               (/\ files[p1].attrs.kind = "Directory"
                /\ FindChild(files, p1, n1) # None
                /\ rename(Self, p1, n1, p2, n2).res # "Panic")
                   => Observable(ThereAndBack(p1, n1, p2, n2)) = Observable(files)

\* The kernel enumerates the root or the first entry created, with reply
\* buffers that hold one to three entries.
DirInodes == {1, 2}
Capacities == 1..3
OpendirStep == \E ino \in DirInodes : opendir(ino)
ReaddirStep == \E capacity \in Capacities : readdir(capacity)

NextDir == RootCreateStep \/ RootMkdirStep \/ OpendirStep \/ ReaddirStep

SpecDir == Init /\ [][NextDir]_vars

\* An enumeration is in progress, or has reached its end, with no change
\* of the tree under it.
Enumerating ==
    /\ stream # None
    /\ ~Unwrap(stream).mutated
    /\ Unwrap(stream).ino \in DOMAIN files
    /\ files[Unwrap(stream).ino].attrs.kind = "Directory"
Enumerated == Enumerating /\ Unwrap(stream).eof

\* The inodes of the entries of a reply other than "." and "..".
ChildInodes(entries) ==
    LET named == SelectSeq(entries, LAMBDA e : e.name \notin {Dot, DotDot})
    IN  [k \in 1..Len(named) |-> named[k].ino]

After(s, k) ==
    LET at == {i \in 1..Len(s) : s[i].offset = k}
    IN  IF at = {} THEN << >> ELSE SubSeq(s, SetMin(at) + 1, Len(s))

\* C15: a readdir call at an offset k the kernel hands back returns the
\* entries that follow the one carrying k in the whole stream ".", "..",
\* children, as many as the buffer holds.
C15_ResumesAfterLast ==
    (Enumerating /\ Unwrap(stream).calls >= 2)
        => Unwrap(stream).last
               = ReplyBuffer(After(readdir_entries(files, Unwrap(stream).ino, 0),
                                   Unwrap(stream).from),
                             Unwrap(stream).capacity)

\* Names at the edge of what a name may be: MAX_NAME_SIZE bytes "n", one
\* byte more, ".", and "a/b".
LongName(n) == [i \in 1..n |-> 110]
EdgeNames == {LongName(MAX_NAME_SIZE), LongName(MAX_NAME_SIZE + 1), Dot, <<97, 47, 98>>}
NameCreateStep == \E name \in EdgeNames : create(1, name)
NameMkdirStep == \E name \in EdgeNames : mkdir(1, name)
NameRenameStep ==
    \E name \in EdgeNames, newname \in EdgeNames : Filesystem_rename(1, name, 1, newname)
LookupStep == \E name \in EdgeNames : lookup(1, name)

NextNames == NameCreateStep \/ NameMkdirStep \/ NameRenameStep \/ LookupStep

SpecNames == Init /\ [][NextNames]_vars

\* A name an entry may bear: at most MAX_NAME_SIZE bytes, no "/", neither
\* "." nor "..".
NameValid(name) ==
    /\ Len(name) <= MAX_NAME_SIZE
    /\ \A i \in 1..Len(name) : name[i] # 47
    /\ name \notin {Dot, DotDot}

\* After the step the first child of the root named name exists and bears
\* exactly that name.
LookupFinds(name) ==
    LET found == FindChild(files', 1, name)
    IN  /\ found # None
        /\ fixed_name_to_str(files'[Unwrap(found)].name) = name

\* The step is refused with INVALID_NAME and leaves the entries alone.
RefusedInvalidName == reply'.res = "INVALID_NAME" /\ files' = files

\* C16: a create, mkdir or rename in the root that succeeds with a valid
\* name, one of 25 bytes included, leaves an entry of exactly that name
\* that lookup finds; with a name of 26 bytes, with "/" in it, or "." it is
\* refused with INVALID_NAME and changes no entry.
C16_NameBounds ==
    [][\A name \in EdgeNames :
          /\ (create(1, name) \/ mkdir(1, name))
                => IF NameValid(name)
                   THEN reply'.res = "ok" => LookupFinds(name)
                   ELSE RefusedInvalidName
          /\ \A old \in EdgeNames :
                (FindChild(files, 1, old) # None /\ Filesystem_rename(1, old, 1, name))
                   => IF NameValid(name)
                      THEN reply'.res = "ok" => LookupFinds(name)
                      ELSE RefusedInvalidName]_vars

\* Every entry slot of the bitmap in block 0 is allocated.
SlotsFull ==
    \A b \in DATA_START..(BLOCK_COUNT - 1) : bitmap_get(read_bitmap(disk), b)

\* C17: a create or mkdir that finds every entry slot allocated is answered
\* with NO_SPACE and leaves entries, block table and mount as they were;
\* one that finds a free slot, as after an rmdir, succeeds.
C17_NoSpace ==
    [][\A parent \in InodeArgs, name \in Names :
          (create(parent, name) \/ mkdir(parent, name))
             => IF SlotsFull
                THEN /\ reply'.res = "NO_SPACE"
                     /\ files' = files
                     /\ inode_block_table' = inode_block_table
                     /\ phase' = phase
                ELSE reply'.res = "ok"]_vars

\* Reads and writes of the root and of the first entry created: writes of
\* one or two bytes at the start, inside and beyond a short file, reads of
\* one or four bytes from the first or second byte on.
IoInodes == {1, 2}
IoOffsets == {0, 1, 3}
IoData == {<< 171 >>, << 1, 2 >>}
ReadOffsets == {0, 1}
ReadSizes == {1, 4}
IoWriteStep ==
    \E ino \in IoInodes, offset \in IoOffsets, data \in IoData : write(ino, offset, data)
ReadStep ==
    \E ino \in IoInodes, offset \in ReadOffsets, size \in ReadSizes :
        read(ino, offset, size)

NextIO == RootCreateStep \/ RootMkdirStep \/ IoWriteStep \/ ReadStep

SpecIO == Init /\ [][NextIO]_vars

\* data[offset .. min(len, offset + size)]
Slice(data, offset, size) == SubSeq(data, offset + 1, Min(Len(data), offset + size))

\* C18: read(ino, offset, size) on a regular file returns the bytes
\* data[offset .. min(len, offset + size)], nothing when the file has no
\* data or offset is at or behind its end; on a directory or a missing
\* inode it returns an error.
C18_ReadSlice ==
    [][\A ino \in IoInodes, offset \in ReadOffsets, size \in ReadSizes :
          read(ino, offset, size)
             => IF ino \in DOMAIN files /\ files[ino].attrs.kind # "Directory"
                THEN /\ reply'.res = "ok"
                     /\ reply'.data = Slice(DataOf(files[ino]), offset, size)
                ELSE reply'.res = "ENOENT"]_vars

Removable(parent, name) ==
    IF parent \notin DOMAIN files THEN {}
    ELSE {c \in DOMAIN files :
             /\ \E k \in 1..Len(files[parent].children) : files[parent].children[k] = c
             /\ fixed_name_to_str(files[c].name) = name
             /\ files[c].attrs.kind = "Directory"
             /\ files[c].children = << >>}

\* The step has removed entry c, which held block b: it is gone from the
\* entries, from the children of parent and from the block table, and bit b
\* is clear in the bitmap of the backing file and in the one in memory.
Removed(parent, c, b) ==
    /\ c \notin DOMAIN files'
    /\ DOMAIN files' = DOMAIN files \ {c}
    /\ parent \in DOMAIN files'
           => \A k \in 1..Len(files'[parent].children) : files'[parent].children[k] # c
    /\ c \notin DOMAIN inode_block_table'
    /\ ~bitmap_get(read_bitmap(disk'), b)
    /\ ~bitmap_get(bitmap', b)

\* C20: rmdir(parent, name) succeeds exactly when parent has a child of
\* that name that is a directory without children, and then removes it from
\* the entries, the parent's children and the block table and clears its
\* bitmap bit; otherwise it answers ENOENT, ENOTDIR or ENOTEMPTY and leaves
\* entries, block table, bitmap and backing file as they were.
C20_RmdirContract ==
    [][\A parent \in InodeArgs, name \in Names :
          rmdir(parent, name)
             => IF Removable(parent, name) # {}
                THEN /\ reply'.res = "ok"
                     /\ reply'.ino \in Removable(parent, name)
                     /\ reply'.ino \in DOMAIN inode_block_table
                     /\ Removed(parent, reply'.ino, inode_block_table[reply'.ino])
                ELSE /\ reply'.res \in {"ENOENT", "ENOTDIR", "ENOTEMPTY"}
                     /\ files' = files
                     /\ inode_block_table' = inode_block_table
                     /\ bitmap' = bitmap
                     /\ disk' = disk]_vars

(***************************************************************************)
(* Deleting a regular file.                                                *)
(***************************************************************************)
\* impl Filesystem for QRFileSystem defines no unlink: the call falls to the
\* trait's provided method, which answers ENOSYS and touches nothing.
unlink(parent, name) ==
    /\ phase = "mounted"
    /\ UNCHANGED <<issued, lector, scan>>
    /\ reply' = [op |-> "unlink", ino |-> 0, res |-> "ENOSYS"]
    /\ UNCHANGED <<files, inode_block_table, bitmap, disk, INODE_COUNTER,
                   phase, archive, exported, stream>>

\* The calls made in the root and in the first directory made.
UnlinkParents == {1, 2}
SubMkdirStep == \E parent \in UnlinkParents, name \in Names : mkdir(parent, name)
SubCreateStep == \E parent \in UnlinkParents, name \in Names : create(parent, name)
SubRmdirStep == \E parent \in UnlinkParents, name \in Names : rmdir(parent, name)
UnlinkStep == \E parent \in UnlinkParents, name \in Names : unlink(parent, name)

NextUnlink == SubMkdirStep \/ SubCreateStep \/ SubRmdirStep \/ UnlinkStep

SpecUnlink == Init /\ [][NextUnlink]_vars

\* The children of parent named name that are regular files: what
\* unlink(parent, name) is to remove.
Unlinkable(parent, name) ==
    IF parent \notin DOMAIN files THEN {}
    ELSE {c \in DOMAIN files :
             /\ \E k \in 1..Len(files[parent].children) : files[parent].children[k] = c
             /\ fixed_name_to_str(files[c].name) = name
             /\ files[c].attrs.kind = "RegularFile"}

\* C21: unlink(parent, name) of an existing regular file removes it from
\* the entries and from the children of parent and frees its block, so that
\* a directory holding only files can be emptied and then removed.
C21_UnlinkRemoves ==
    [][\A parent \in UnlinkParents, name \in Names :
          (unlink(parent, name) /\ Unlinkable(parent, name) # {})
             => \E c \in Unlinkable(parent, name) :
                   /\ reply'.res = "ok"
                   /\ c \notin DOMAIN files'
                   /\ \A k \in 1..Len(files'[parent].children) :
                          files'[parent].children[k] # c
                   /\ c \in DOMAIN inode_block_table
                   /\ ~bitmap_get(read_bitmap(disk'), inode_block_table[c])]_vars

(***************************************************************************)
(* Unmount and mount again, and statfs.                                    *)
(***************************************************************************)
\* bin/mount.rs on the backing file left by the mount or import before:
\* a new QRFileSystem over the file, load_fs_from_disk, and the counter set
\* to the counter cell plus one.  A load that panics ends the mount.
remount(order) ==
    LET r == load_fs_from_disk(QRFileSystem_new(disk), order)
    IN  /\ phase \in {"mounted", "imported", "import_failed"}
        /\ UNCHANGED <<issued, lector, scan>>
        /\ read_u64(disk) < MaxInode
        /\ Become(r.fs)
        /\ INODE_COUNTER' = read_u64(disk) + 1
        /\ phase' = IF r.res = "Ok" THEN "mounted" ELSE "panicked"
        /\ reply' = [op |-> "remount", ino |-> 0,
                     res |-> IF r.res = "Ok" THEN "ok" ELSE "panic"]
        /\ stream' = None
        /\ UNCHANGED <<archive, exported>>

\* a - b in u64: [value, overflow].  When b > a the difference wraps to
\* 2^64 + a - b; value then holds a - b and overflow is TRUE.
sub_u64(a, b) == [value |-> a - b, overflow |-> b > a]

\* statfs.  A subtraction that overflows panics in a build with overflow
\* checks and wraps in one without: wraps says which build runs.
statfs(wraps) ==
    LET actual_cant_inodes == sub_u64(INODE_COUNTER, 1)
        d1 == sub_u64(BLOCK_COUNT, actual_cant_inodes.value)
        free_blocks == sub_u64(d1.value, 2)
        ffree == sub_u64(BLOCK_COUNT - 2, actual_cant_inodes.value)
        overflow == actual_cant_inodes.overflow \/ d1.overflow
                       \/ free_blocks.overflow \/ ffree.overflow
    IN  /\ phase = "mounted"
        /\ UNCHANGED <<issued, lector, scan>>
        /\ overflow => wraps \in BOOLEAN
        /\ ~overflow => wraps = FALSE
        /\ IF overflow /\ ~wraps
           THEN /\ phase' = "panicked"
                /\ reply' = [op |-> "statfs", ino |-> 0, res |-> "panic"]
           ELSE /\ phase' = phase
                /\ reply' = [op |-> "statfs", ino |-> 0, res |-> "ok",
                             blocks |-> BLOCK_COUNT,
                             bfree |-> free_blocks.value,
                             bavail |-> free_blocks.value,
                             files |-> BLOCK_COUNT - 2,
                             ffree |-> ffree.value,
                             wrapped |-> overflow,
                             bsize |-> BLOCK_SIZE,
                             namelen |-> MAX_NAME_SIZE,
                             frsize |-> BLOCK_SIZE]
        /\ UNCHANGED <<files, inode_block_table, bitmap, disk, INODE_COUNTER,
                       archive, exported, stream>>

RemountStep == \E order \in Orders(LoadedInodes(disk)) : remount(order)
StatfsStep == \E wraps \in BOOLEAN : statfs(wraps)

NextMount ==
    RootMkdirStep \/ RootCreateStep \/ RootRmdirStep \/ RemountStep \/ StatfsStep

SpecMount == Init /\ [][NextMount]_vars

\* The entry slots whose bit is clear in the bitmap of the backing file.
FreeSlots ==
    {b \in DATA_START..(BLOCK_COUNT - 1) : ~bitmap_get(read_bitmap(disk), b)}

\* C23: statfs reports as free blocks, and as free inodes, the number of
\* entry slots 2 .. BLOCK_COUNT - 1 whose bitmap bit is clear, after any
\* create, mkdir, rmdir and remount.
C23_StatfsCountsFreeSlots ==
    [][\A wraps \in BOOLEAN :
          statfs(wraps)
             => /\ reply'.res = "ok"
                /\ ~reply'.wrapped
                /\ reply'.bfree = Cardinality(FreeSlots)
                /\ reply'.bavail = Cardinality(FreeSlots)
                /\ reply'.ffree = Cardinality(FreeSlots)]_vars

\* C24: statfs never fails: none of its u64 subtractions overflows, whatever
\* the counter has reached.
C24_StatfsNoUnderflow ==
    [][\A wraps \in BOOLEAN :
          statfs(wraps) => (reply'.res = "ok" /\ ~reply'.wrapped)]_vars

AfterMkdir(parent, name) ==
    push([Self EXCEPT !.disk = write_u64(@, INODE_COUNTER)], INODE_COUNTER, name,
         None, parent, get_default_attrs(INODE_COUNTER, 0, TRUE))

AfterMkdirRmdir(parent, name) ==
    LET m == AfterMkdir(parent, name).fs
        t == rmdir_scan(m.files, parent, name)
    IN  IF t.err # "" THEN m ELSE rmdir_removal(m, parent, t.ino)

\* C29: mkdir(parent, name) in a directory that has no child of that name,
\* followed at once by rmdir(parent, name), leaves the entries (with the
\* children of parent), the inode -> block table and the bitmap of the
\* backing file as they were before the mkdir.
C29_MkdirRmdirRestores ==
    phase = "mounted"
        => \A parent \in DOMAIN files, name \in Names :
               (/\ files[parent].attrs.kind = "Directory"
                /\ FindChild(files, parent, name) = None
                /\ AfterMkdir(parent, name).res = "Ok")
                  => /\ AfterMkdirRmdir(parent, name).files = files
                     /\ AfterMkdirRmdir(parent, name).inode_block_table = inode_block_table
                     /\ read_bitmap(AfterMkdirRmdir(parent, name).disk) = read_bitmap(disk)

(***************************************************************************)
(* The counter over remounts and export/import.                            *)
(***************************************************************************)
\* Files are named "a" and directories "b"; the one write makes the first
\* entry a file of 425 bytes, one more than an entry's block has room for.
CounterCreateStep == create(1, <<97>>)
CounterMkdirStep == mkdir(1, <<98>>)
CounterRmdirStep == rmdir(1, <<98>>)
CounterWriteStep == write(2, BLOCK_SIZE - ENTRY_HEADER, <<171>>)
\* One export in a run: the export directory starts empty.
CounterDestroyStep ==
    /\ archive = << >>
    /\ \E order \in Orders(DOMAIN files) : destroy(Pass(1), order)
CounterImportStep == import(Pass(1))

NextCounter ==
    \/ CounterCreateStep
    \/ CounterMkdirStep
    \/ CounterRmdirStep
    \/ CounterWriteStep
    \/ CounterDestroyStep
    \/ CounterImportStep
    \/ RemountStep

SpecCounter == Init /\ [][NextCounter]_vars

\* C22: every id issued by create or mkdir is greater than every id issued
\* before it and is the id of no entry that exists or ever existed, over
\* create, mkdir and rmdir interleaved with remounts from the backing file
\* and export/import through an archive.
C22_IdsNeverReused ==
    [][\A name \in Names :
          (create(1, name) \/ mkdir(1, name))
             => /\ reply'.ino \notin DOMAIN files
                /\ \A k \in issued : reply'.ino > k]_vars

\* The highest id handed out so far.
HighestIssued == CHOOSE k \in issued : \A j \in issued : j <= k

\* C30: after a new filesystem is initialised and after every create, mkdir
\* and import that succeeds, the counter cell of the backing file holds the
\* highest inode id issued so far.
C30_CellHoldsHighestIssued ==
    (\/ reply.op \in {"mount", "create", "mkdir"} /\ reply.res = "ok"
     \/ reply.op = "import" /\ reply.res = "Ok")
        => read_u64(disk) = HighestIssued

(***************************************************************************)
(* Names and passphrases that hold the sentinel.                           *)
(***************************************************************************)
\* "a|b" and "|PASSPHRASE:" as names; "x" and "|PASSPHRASE:" as passphrases.
SentinelNames == {<<97, 124, 98>>, SENTINEL}
SentinelPassphrases == {Pass(1), SENTINEL}
SentinelCreateStep == \E name \in SentinelNames : create(1, name)
SentinelDestroyStep ==
    \E passphrase \in SentinelPassphrases, order \in Orders(DOMAIN files) :
        destroy(passphrase, order)
SentinelImportStep == \E passphrase \in SentinelPassphrases : import(passphrase)

NextSentinel == SentinelCreateStep \/ SentinelDestroyStep \/ SentinelImportStep

SpecSentinel == Init /\ [][NextSentinel]_vars

\* The metadata text of the export recorded in exported, the HashMap having
\* handed out the entries in the given order.
MetadataText(order) ==
    JsonMetadata(export_files_as_qr(Unwrap(exported).files, Unwrap(exported).counter,
                                    << >>, Unwrap(exported).passphrase, order).metadata)

\* C25: whatever the names (up to 25 bytes, "|" allowed) and the
\* passphrase, the text "|PASSPHRASE:" does not occur in the serialized
\* metadata, so that the first occurrence the importer finds is the sentinel
\* the export appended.
C25_SentinelNotInMetadata ==
    exported # None
        => \A order \in Orders(DOMAIN Unwrap(exported).files) :
               Find(MetadataText(order), SENTINEL) = 0

(***************************************************************************)
(* The consistency checkers (bin/fsck.rs on an archive, bin/check.rs on a  *)
(* backing file).                                                          *)
(***************************************************************************)
\* The entries whose parent is neither 0 nor an entry of the map.
orphans(fs_files) ==
    {i \in DOMAIN fs_files :
        fs_files[i].parent # 0 /\ fs_files[i].parent \notin DOMAIN fs_files}

RECURSIVE cycle_walk(_, _, _)
\* The walk up the parent links from current, path being the ids met so
\* far: TRUE when a parent is met that is already in path.
cycle_walk(fs_files, current, path) ==
    IF current = 0 \/ current \notin DOMAIN fs_files THEN FALSE
    ELSE IF fs_files[current].parent \in path THEN TRUE
    ELSE cycle_walk(fs_files, fs_files[current].parent,
                    path \cup {fs_files[current].parent})

\* Walks start from every entry not met by an earlier walk; an entry met by
\* an earlier walk that found nothing leads to nothing either, so a cycle is
\* reported exactly when the walk from some entry finds one.
has_cycle(fs_files) ==
    \E inode \in DOMAIN fs_files : cycle_walk(fs_files, inode, {inode})

\* The kinds of issue run_consistency_checks pushes (the duplicate-inode
\* check compares the size of the map with the number of its keys and never
\* pushes one), with the number of orphans it counts.
run_consistency_checks(fs_files) ==
    LET name(i) == fixed_name_to_str(fs_files[i].name)
        bad_names == {i \in DOMAIN fs_files :
                         \/ (Len(name(i)) > 1 /\ \E k \in 1..Len(name(i)) : name(i)[k] = 47)
                         \/ name(i) \in {Dot, DotDot}}
        listed == {<<p, k>> \in (DOMAIN fs_files) \X (1..MaxInode) :
                      k <= Len(fs_files[p].children)}
        mismatches == {pk \in listed :
                          /\ fs_files[pk[1]].children[pk[2]] \in DOMAIN fs_files
                          /\ fs_files[fs_files[pk[1]].children[pk[2]]].parent # pk[1]}
        missing_children == {pk \in listed :
                                fs_files[pk[1]].children[pk[2]] \notin DOMAIN fs_files}
    IN  [orphan_count |-> Cardinality(orphans(fs_files)),
         has_cycle |-> has_cycle(fs_files),
         issues |-> {kind \in {"missing_root", "orphan", "cycle", "name",
                               "mismatch", "missing_child"} :
                        \/ kind = "missing_root" /\ 1 \notin DOMAIN fs_files
                        \/ kind = "orphan" /\ orphans(fs_files) # {}
                        \/ kind = "cycle" /\ has_cycle(fs_files)
                        \/ kind = "name" /\ bad_names # {}
                        \/ kind = "mismatch" /\ mismatches # {}
                        \/ kind = "missing_child" /\ missing_children # {}}]

\* bin/fsck.rs: the archive is imported into a new temporary backing file
\* and, when the import succeeds, the imported model is checked.
fsck(passphrase) ==
    LET r == import_files_from_qr(QRFileSystem_new(initialize_new_disk), 1,
                                  archive, passphrase)
    IN  /\ phase = "exported"
        /\ Become(IF r.res = "Ok"
                  THEN [r.fs EXCEPT !.disk = write_u64(@, r.counter)]
                  ELSE r.fs)
        /\ INODE_COUNTER' = r.counter
        /\ phase' = IF r.res = "Ok" THEN "checked" ELSE "import_failed"
        /\ reply' = IF r.res = "Ok"
                    THEN [op |-> "fsck", ino |-> 0, res |-> "Ok",
                          report |-> run_consistency_checks(r.fs.files)]
                    ELSE [op |-> "fsck", ino |-> 0, res |-> r.res]
        /\ UNCHANGED <<archive, exported, stream, issued, lector, scan>>

\* bin/check.rs on the backing file of the filesystem: the entries are
\* loaded from the file and orphans, cycles and table entries without an
\* entry are counted.  Nothing is written.
check(order) ==
    LET r == load_fs_from_disk(QRFileSystem_new(disk), order)
    IN  /\ phase = "mounted"
        /\ reply' = IF r.res = "Ok"
                    THEN [op |-> "check", ino |-> 0, res |-> "Ok",
                          orphan_count |-> Cardinality(orphans(r.fs.files)),
                          has_cycle |-> has_cycle(r.fs.files),
                          missing_blocks |->
                              Cardinality({i \in DOMAIN r.fs.inode_block_table :
                                              i \notin DOMAIN r.fs.files})]
                    ELSE [op |-> "check", ino |-> 0, res |-> "panic"]
        /\ UNCHANGED <<files, inode_block_table, bitmap, disk, INODE_COUNTER,
                       phase, archive, exported, stream, issued, lector, scan>>

FsckStep == fsck(Pass(1))
CheckStep == \E order \in Orders(LoadedInodes(disk)) : check(order)

NextFsck == RootMkdirStep \/ MoveStep \/ MoveDestroyStep \/ FsckStep \/ CheckStep

SpecFsck == Init /\ [][NextFsck]_vars

\* The defects of a model the checker is to find: an entry whose parent does
\* not exist, a children list that names an entry with another parent, an
\* entry missing from the children of its parent, a cycle of parent links.
HasOrphan == \E i \in DOMAIN files : files[i].parent # 0 /\ files[i].parent \notin DOMAIN files
HasForeignChild ==
    \E p \in DOMAIN files : \E k \in 1..Len(files[p].children) :
        /\ files[p].children[k] \in DOMAIN files
        /\ files[files[p].children[k]].parent # p
HasUnlistedChild ==
    \E i \in DOMAIN files :
        /\ files[i].parent \in DOMAIN files
        /\ Occurrences(files[i].parent, i) = 0
HasCycle == ~C6_Acyclic

\* The root and one more entry, whose parent does not exist.
SingleOrphan ==
    /\ Cardinality(DOMAIN files) = 2
    /\ 1 \in DOMAIN files
    /\ files[1].parent = 0
    /\ HasOrphan

\* C26: the checker reports an issue when the model has an orphan, a
\* children list naming an entry with another parent, an entry missing from
\* its parent's children or a cycle of parent links, and no issue of these
\* kinds when it has none of them; on a model whose only other entry has a
\* parent that does not exist it reports exactly one orphan, no cycle and
\* no block without an entry.
C26_CheckerFindsDefects ==
    /\ (reply.op = "fsck" /\ reply.res = "Ok")
           => /\ (HasOrphan \/ HasForeignChild \/ HasUnlistedChild \/ HasCycle)
                     => reply.report.issues # {}
              /\ ~(HasOrphan \/ HasForeignChild \/ HasUnlistedChild \/ HasCycle)
                     => reply.report.issues \cap
                            {"orphan", "cycle", "mismatch", "missing_child"} = {}
              /\ SingleOrphan => (reply.report.orphan_count = 1 /\ ~reply.report.has_cycle)
    /\ (reply.op = "check" /\ reply.res = "Ok" /\ SingleOrphan)
           => /\ reply.orphan_count = 1
              /\ ~reply.has_cycle
              /\ reply.missing_blocks = 0

(***************************************************************************)
(* The phone-transfer receiver (bin/lector.rs).  The HTTP server runs on a *)
(* thread of its own; receive_qr and scanning_done hold the state mutex    *)
(* for their whole body, as does the poll of the main thread, so each is   *)
(* one step.  The target directory is archive.  lector is                  *)
(* [scanning_complete, total_qrs, pc, snapshot]: pc is the place of the    *)
(* main thread ("waiting" in the poll loop, "importing" from the check for *)
(* images to the return of import_files_from_qr, "serving" while the       *)
(* filesystem is mounted, "exit") and snapshot the directory as it was     *)
(* when the main thread left the poll loop.                                *)
(***************************************************************************)
\* Images a run may receive.
MaxQrs == 4

\* What the phone posts: the texts of the images of an archive, here the
\* export of a new filesystem under the passphrase "x", or a text over the
\* capacity of a QR symbol (None), for which QrCode::new fails.
LectorArchive == export_files_as_qr(MountNewDisk.files, 2, << >>, Pass(1), << 1 >>).dir
Payloads == {Some(LectorArchive[k]) : k \in DOMAIN LectorArchive} \cup {None}

InitLector ==
    /\ files = << >>
    /\ inode_block_table = << >>
    /\ bitmap = read_bitmap(initialize_new_disk)
    /\ disk = initialize_new_disk
    /\ INODE_COUNTER = 1
    /\ phase = "intake"
    /\ reply = [op |-> "lector", res |-> "ok", ino |-> 0]
    /\ archive = << >>
    /\ exported = None
    /\ stream = None
    /\ issued = {}
    /\ lector = Some([scanning_complete |-> FALSE, total_qrs |-> 0,
                      pc |-> "waiting", snapshot |-> << >>])
    /\ scan = None

\* The server thread lives until the process ends: dropping its JoinHandle
\* detaches it.
ServerRuns == lector # None /\ Unwrap(lector).pc # "exit"

receive_qr(payload) ==
    /\ ServerRuns
    /\ Unwrap(lector).total_qrs < MaxQrs
    /\ lector' = Some([Unwrap(lector) EXCEPT !.total_qrs = @ + 1])
    /\ archive' = IF payload = None THEN archive
                  ELSE Insert(archive, Unwrap(lector).total_qrs, Unwrap(payload))
    /\ reply' = [op |-> "receive_qr", res |-> "OK", ino |-> 0]
    /\ UNCHANGED <<files, inode_block_table, bitmap, disk, INODE_COUNTER, phase,
                   exported, stream, issued, scan>>

scanning_done ==
    /\ ServerRuns
    /\ lector' = Some([Unwrap(lector) EXCEPT !.scanning_complete = TRUE])
    /\ reply' = [op |-> "scanning_done", res |-> "DONE", ino |-> 0]
    /\ UNCHANGED <<files, inode_block_table, bitmap, disk, INODE_COUNTER, phase,
                   archive, exported, stream, issued, scan>>

\* The main thread finds scanning_complete set, leaves the loop, drops the
\* handle of the server thread and looks for an image in the directory.
lector_poll ==
    /\ lector # None
    /\ Unwrap(lector).pc = "waiting"
    /\ Unwrap(lector).scanning_complete
    /\ lector' = Some([Unwrap(lector) EXCEPT
                          !.pc = IF DOMAIN archive = {} THEN "exit" ELSE "importing",
                          !.snapshot = archive])
    /\ reply' = [op |-> "lector", ino |-> 0,
                 res |-> IF DOMAIN archive = {} THEN "No QR codes received" ELSE "ok"]
    /\ UNCHANGED <<files, inode_block_table, bitmap, disk, INODE_COUNTER, phase,
                   archive, exported, stream, issued, scan>>

\* The import into a new temporary backing file.  It reads the directory
\* while the server may still write to it: seen is the directory as the
\* import meets it, the images that were there when it began and any of
\* those written since.
lector_import(seen) ==
    LET r == import_files_from_qr(QRFileSystem_new(initialize_new_disk), 1,
                                  seen, Pass(1))
    IN  /\ lector # None
        /\ Unwrap(lector).pc = "importing"
        /\ DOMAIN Unwrap(lector).snapshot \subseteq DOMAIN seen
        /\ Become(r.fs)
        /\ INODE_COUNTER' = r.counter
        /\ phase' = IF r.res = "Ok" THEN "mounted" ELSE "import_failed"
        /\ lector' = Some([Unwrap(lector) EXCEPT
                              !.pc = IF r.res = "Ok" THEN "serving" ELSE "exit"])
        /\ reply' = [op |-> "import", ino |-> 0, res |-> r.res, pass |-> Pass(1)]
        /\ UNCHANGED <<archive, exported, stream, issued, scan>>

ReceiveStep == \E payload \in Payloads : receive_qr(payload)
LectorImportStep ==
    \E keys \in SUBSET DOMAIN archive :
        lector_import([k \in keys |-> archive[k]])

NextLector == ReceiveStep \/ scanning_done \/ lector_poll \/ LectorImportStep

SpecLector == InitLector /\ [][NextLector]_vars

\* C27: intake and import are decoupled in time: once the main thread has
\* turned to the import of the target directory no receive_qr writes an
\* image there any more, and receive_qr never touches the QRFileSystem
\* model.
C27_IntakeBeforeImport ==
    [][\A payload \in Payloads :
          receive_qr(payload)
             => /\ Unwrap(lector).pc = "waiting"
                /\ UNCHANGED <<files, inode_block_table, bitmap, disk>>]_vars

(***************************************************************************)
(* The effects of a handler in the order of its statements.  An effect is  *)
(* [effect, fs]: what the statement touches and the QRFileSystem after it. *)
(*   "model"    self.files or self.inode_block_table is changed            *)
(*   "block"    write_block on the block of an entry                       *)
(*   "counter"  write_u64 on the counter cell                              *)
(*   "bitmap"   write_bitmap on block 0 (allocate_block, free_block, push) *)
(***************************************************************************)
Effect(effect, fs) == [effect |-> effect, fs |-> fs]

push_effects(fs, inode, file_name, data, parent_inode, file_attrs) ==
    LET file == FSEntry_new(inode, file_name, data, parent_inode, file_attrs)
        fs1 == [fs EXCEPT !.files = Insert(@, inode, file)]
        alloc == allocate_block(fs1.disk)
    IN  IF alloc.block = None
        THEN << Effect("model", fs1) >>
        ELSE
        LET idx == Unwrap(alloc.block)
            fs2 == [fs1 EXCEPT !.disk = alloc.disk]
            fs3 == [fs2 EXCEPT !.inode_block_table = Insert(@, inode, idx)]
            wr == write_block(fs3.disk, idx, serialize_fs_entry_to_disk(file))
        IN  IF ~wr.ok
            THEN << Effect("model", fs1), Effect("bitmap", fs2), Effect("model", fs3) >>
            ELSE
            LET fs4 == [fs3 EXCEPT !.disk = wr.disk]
                bitmap1 == bitmap_set_bit(fs4.bitmap, idx)
                fs5 == [fs4 EXCEPT !.bitmap = bitmap1,
                                   !.disk = write_bitmap(@, bitmap1)]
                fs6 == [fs5 EXCEPT !.files[parent_inode].children = Append(@, inode)]
            IN  << Effect("model", fs1), Effect("bitmap", fs2), Effect("model", fs3),
                   Effect("block", fs4), Effect("bitmap", fs5) >>
                \o (IF parent_inode \in DOMAIN fs5.files
                    THEN << Effect("model", fs6) >> ELSE << >>)

\* create and mkdir: the counter cell is written with the inode just taken
\* from INODE_COUNTER, then the entry is pushed.
Insertion_effects(fs, inode, parent, name, is_folder) ==
    LET fs1 == [fs EXCEPT !.disk = write_u64(@, inode)]
    IN  << Effect("counter", fs1) >>
        \o push_effects(fs1, inode, name, None, parent,
                        get_default_attrs(inode, 0, is_folder))

\* rmdir once its scan has found target_inode.
rmdir_effects(fs, parent, target_inode) ==
    LET has_block == target_inode \in DOMAIN fs.inode_block_table
        fs1 == [fs EXCEPT !.disk = free_block(@, fs.inode_block_table[target_inode])]
        fs2 == [fs1 EXCEPT !.inode_block_table = Remove(@, target_inode)]
        fs3 == IF has_block THEN fs2 ELSE fs
        fs4 == [fs3 EXCEPT !.files[parent].children = Retain(@, target_inode)]
        fs5 == IF parent \in DOMAIN fs3.files THEN fs4 ELSE fs3
        fs6 == [fs5 EXCEPT !.files = Remove(@, target_inode)]
    IN  (IF has_block THEN << Effect("bitmap", fs1), Effect("model", fs2) >> ELSE << >>)
        \o (IF parent \in DOMAIN fs3.files THEN << Effect("model", fs4) >> ELSE << >>)
        \o << Effect("model", fs6) >>

\* write and setattr on an entry that has a block: entry is the entry after
\* the change made in memory.
rewrite_effects(fs, ino, entry) ==
    LET fs1 == [fs EXCEPT !.files[ino] = entry]
        wr == write_block(fs1.disk, fs1.inode_block_table[ino],
                          serialize_fs_entry_to_disk(entry))
    IN  << Effect("model", fs1) >>
        \o (IF wr.ok THEN << Effect("block", [fs1 EXCEPT !.disk = wr.disk]) >>
            ELSE << >>)

write_effects(fs, ino, offset, data) ==
    LET old == IF fs.files[ino].data = None THEN << >> ELSE Unwrap(fs.files[ino].data)
        buffer == WriteInto(old, offset, data)
    IN  rewrite_effects(fs, ino, [fs.files[ino] EXCEPT !.data = Some(buffer),
                                                      !.attrs.size = Len(buffer)])

\* The state a sequence of effects made from fs ends in.
Outcome(fs, effects) == IF effects = << >> THEN fs ELSE effects[Len(effects)].fs

\* The order the effects are to be issued in.
Rank(effect) ==
    CASE effect = "model" -> 1
      [] effect = "block" -> 2
      [] effect = "counter" -> 3
      [] effect = "bitmap" -> 4

InOrder(effects) ==
    \A i, j \in 1..Len(effects) :
        i < j => Rank(effects[i].effect) <= Rank(effects[j].effect)

\* C31: in every create, mkdir, rmdir and write that replies success the
\* effects are issued in the order model update, rewrite of the entry's
\* block, counter cell, bitmap.
C31_EffectsInOrder ==
    [][/\ \A name \in Names :
              create(1, name) /\ reply'.res = "ok"
                  => InOrder(Insertion_effects(Self, INODE_COUNTER, 1, name, FALSE))
       /\ \A name \in Names :
              mkdir(1, name) /\ reply'.res = "ok"
                  => InOrder(Insertion_effects(Self, INODE_COUNTER, 1, name, TRUE))
       /\ \A name \in Names :
              rmdir(1, name) /\ reply'.res = "ok"
                  => InOrder(rmdir_effects(Self, 1, rmdir_target(1, name).ino))
       /\ \A ino \in DataInodes, offset \in WriteOffsets, data \in WriteData :
              write(ino, offset, data) /\ reply'.res = "ok"
                  => InOrder(write_effects(Self, ino, offset, data))
      ]_vars

(***************************************************************************)
(* Handlers over a backing file whose reads and writes can fail.  fault    *)
(* names the call on the backing file that returns Err in this run of the  *)
(* handler ("none": every call succeeds); a call that fails leaves the     *)
(* file as it was.                                                         *)
(***************************************************************************)
push_io(fs, inode, file_name, data, parent_inode, file_attrs, fault) ==
    LET file == FSEntry_new(inode, file_name, data, parent_inode, file_attrs)
        fs1 == [fs EXCEPT !.files = Insert(@, inode, file)]
        alloc == allocate_block(fs1.disk)
    IN  IF fault = "allocate_block" THEN [fs |-> fs1, res |-> "Err"]
        ELSE IF alloc.block = None THEN [fs |-> fs1, res |-> "Panic"]
        ELSE
        LET idx == Unwrap(alloc.block)
            fs3 == [fs1 EXCEPT !.disk = alloc.disk,
                               !.inode_block_table = Insert(@, inode, idx)]
            wr == write_block(fs3.disk, idx, serialize_fs_entry_to_disk(file))
        IN  IF fault = "write_block" \/ ~wr.ok THEN [fs |-> fs3, res |-> "Err"]
            ELSE
            LET bitmap1 == bitmap_set_bit(fs3.bitmap, idx)
                fs4 == [fs3 EXCEPT !.disk = wr.disk, !.bitmap = bitmap1]
                fs5 == [fs4 EXCEPT !.disk = write_bitmap(@, bitmap1)]
            IN  IF fault = "write_bitmap" THEN [fs |-> fs4, res |-> "Err"]
                ELSE [fs |-> IF parent_inode \in DOMAIN fs5.files
                             THEN [fs5 EXCEPT !.files[parent_inode].children =
                                                  Append(@, inode)]
                             ELSE fs5,
                      res |-> "Ok"]

Insertion_io(op, parent, name, is_folder, fault) ==
    LET inode == INODE_COUNTER
        d1 == IF fault = "write_u64" THEN disk ELSE write_u64(disk, inode)
        r == push_io([Self EXCEPT !.disk = d1], inode, name, None, parent,
                     get_default_attrs(inode, 0, is_folder), fault)
    IN  /\ phase = "mounted"
        /\ INODE_COUNTER < MaxInode
        /\ INODE_COUNTER' = INODE_COUNTER + 1
        /\ issued' = issued \cup {inode}
        /\ Become(r.fs)
        /\ phase' = IF r.res = "Panic" THEN "panicked" ELSE phase
        /\ reply' = [op |-> op, ino |-> inode,
                     res |-> CASE r.res = "Panic" -> "panic"
                               [] r.res = "Err" -> "EIO"
                               [] OTHER -> "ok"]
        /\ stream' = Touched(stream)
        /\ UNCHANGED <<archive, exported, lector, scan>>

rmdir_io(parent, name, fault) ==
    LET t == rmdir_target(parent, name)
        after == rmdir_removal(Self, parent, t.ino)
    IN  /\ phase = "mounted"
        /\ IF t.err # ""
           THEN /\ reply' = [op |-> "rmdir", ino |-> 0, res |-> t.err]
                /\ UNCHANGED <<files, inode_block_table, bitmap, disk>>
           ELSE /\ Become(IF fault = "free_block"
                          THEN [after EXCEPT !.disk = disk] ELSE after)
                /\ reply' = [op |-> "rmdir", ino |-> t.ino, res |-> "ok"]
        /\ stream' = IF t.err # "" THEN stream ELSE Touched(stream)
        /\ UNCHANGED <<INODE_COUNTER, phase, archive, exported, issued, lector, scan>>

write_io(ino, offset, data, fault) ==
    /\ phase = "mounted"
    /\ IF ino \notin DOMAIN files \/ files[ino].attrs.kind = "Directory"
       THEN /\ reply' = [op |-> "write", ino |-> ino, res |-> "ENOENT"]
            /\ UNCHANGED <<files, disk, phase>>
       ELSE LET old == IF files[ino].data = None THEN << >>
                       ELSE Unwrap(files[ino].data)
                buffer == WriteInto(old, offset, data)
                files1 == [files EXCEPT ![ino].data = Some(buffer),
                                        ![ino].attrs.size = Len(buffer)]
            IN  /\ files' = files1
                /\ IF ino \notin DOMAIN inode_block_table
                   THEN /\ phase' = "panicked"
                        /\ reply' = [op |-> "write", ino |-> ino, res |-> "panic"]
                        /\ UNCHANGED disk
                   ELSE /\ disk' = IF fault = "write_block" THEN disk
                                   ELSE write_block(disk, inode_block_table[ino],
                                            serialize_fs_entry_to_disk(files1[ino])).disk
                        /\ reply' = [op |-> "write", ino |-> ino, res |-> "ok",
                                     written |-> Len(data)]
                        /\ UNCHANGED phase
    /\ UNCHANGED <<inode_block_table, bitmap, INODE_COUNTER, archive, exported,
                   stream, issued, lector, scan>>

InsertionFaults == {"none", "write_u64", "allocate_block", "write_block", "write_bitmap"}
FaultCreateStep == \E fault \in InsertionFaults : Insertion_io("create", 1, <<97>>, FALSE, fault)
FaultMkdirStep == \E fault \in InsertionFaults : Insertion_io("mkdir", 1, <<98>>, TRUE, fault)
FaultRmdirStep == \E fault \in {"none", "free_block"} : rmdir_io(1, <<98>>, fault)
FaultWriteStep == \E fault \in {"none", "write_block"} : write_io(2, 0, <<171>>, fault)

NextFault == FaultCreateStep \/ FaultMkdirStep \/ FaultRmdirStep \/ FaultWriteStep

SpecFault == Init /\ [][NextFault]_vars

\* The handler replied an error and left the in-memory model as it was.
FailedCleanly ==
    /\ reply'.res \notin {"ok", "panic"}
    /\ UNCHANGED <<files, inode_block_table, INODE_COUNTER>>

\* C32: a create, mkdir, write or rmdir in which a call on the backing file
\* fails replies an error and leaves entries, children lists, the block
\* table and the inode counter as they were before the call.
C32_FailedIoLeavesModel ==
    [][/\ \A fault \in InsertionFaults \ {"none"} :
              Insertion_io("create", 1, <<97>>, FALSE, fault) => FailedCleanly
       /\ \A fault \in InsertionFaults \ {"none"} :
              Insertion_io("mkdir", 1, <<98>>, TRUE, fault) => FailedCleanly
       /\ rmdir_io(1, <<98>>, "free_block") /\ rmdir_target(1, <<98>>).err = ""
              => FailedCleanly
       /\ write_io(2, 0, <<171>>, "write_block") /\ 2 \in DOMAIN inode_block_table
              /\ 2 \in DOMAIN files /\ files[2].attrs.kind # "Directory"
              => FailedCleanly
      ]_vars

(***************************************************************************)
(* The layout of an archive.                                               *)
(***************************************************************************)
\* A passphrase long enough for the final text of a two-entry tree to need
\* one image more than its first metadata text.
LongPassLen == 231
ArchivePassphrases == {Pass(1), Pass(LongPassLen)}

ArchiveDestroyStep ==
    \E passphrase \in ArchivePassphrases, order \in Orders(DOMAIN files) :
        destroy(passphrase, order)
ArchiveImportStep == \E passphrase \in ArchivePassphrases : import(passphrase)

\* One byte is written to the first or the second file created.
ArchiveWriteStep == \E ino \in {2, 3} : write(ino, 0, <<171>>)

NextArchive ==
    RootCreateStep \/ ArchiveWriteStep \/ ArchiveDestroyStep \/ ArchiveImportStep

SpecArchive == Init /\ [][NextArchive]_vars

\* The text an export ends with: metadata, sentinel, passphrase.
FinalText(ex, passphrase) == JsonMetadata(ex.metadata) \o SENTINEL \o passphrase

\* The image numbers the metadata of ex refers to.
DataImages(ex) ==
    UNION {{ex.metadata.files[i].qr_blocks[c] :
               c \in 1..Len(ex.metadata.files[i].qr_blocks)} :
              i \in 1..Len(ex.metadata.files)}

\* The images that hold the chunks of text number 0 .. K-1, in this order.
TextIsPrefix(dir, text) ==
    \A k \in 1..Len(split_data_for_qr(text)) :
        /\ (k - 1) \in DOMAIN dir
        /\ qr_to_binary(dir[k - 1]) = Some(split_data_for_qr(text)[k])

\* The bytes of the images of dir in the order of their numbers.
InIndexOrder(dir) ==
    Join([k \in 1..Cardinality(DOMAIN dir) |->
             IF (k - 1) \in DOMAIN dir /\ qr_to_binary(dir[k - 1]) # None
             THEN Unwrap(qr_to_binary(dir[k - 1])) ELSE << >>], << >>)

\* The numbers of the images written for the chunks of the final text
\* beyond the first directory_blocks_count.
OverflowImages(ex, passphrase) ==
    LET K == Len(split_data_for_qr(FinalText(ex, passphrase)))
        D == ex.directory_blocks_count
    IN  {D + Cardinality(DataImages(ex)) + j : j \in 0..(K - D - 1)}

ArchiveLayout(ex, passphrase) ==
    LET text == FinalText(ex, passphrase)
        K == Len(split_data_for_qr(text))
    IN  /\ TextIsPrefix(ex.dir, text)
        /\ \A k \in DOMAIN ex.dir : k >= K => k \in DataImages(ex)
        /\ OverflowImages(ex, passphrase) \cap DataImages(ex) = {}
        /\ LET all == InIndexOrder(ex.dir)
           IN  /\ Find(all, SENTINEL) # 0
               /\ SubSeq(all, 1, Find(all, SENTINEL) - 1) = JsonMetadata(ex.metadata)

\* C33: in the archive an export writes the images 0 .. K-1 hold the chunks
\* of metadata, sentinel and passphrase, every later image is a data chunk
\* the metadata refers to, no overflow chunk of the metadata has the number
\* of a data chunk, and the images read in the order of their numbers give
\* the metadata text up to the sentinel.
C33_MetadataIsPrefix ==
    [][\A passphrase \in ArchivePassphrases, order \in Orders(DOMAIN files) :
          destroy(passphrase, order)
              => ArchiveLayout(export_files_as_qr(files, INODE_COUNTER, archive,
                                                  passphrase, order), passphrase)
      ]_vars

\* The numbers recorded for the chunks of the entry with this inode.
QrBlocksOf(ex, inode) ==
    LET i == CHOOSE k \in 1..Len(ex.metadata.files) : ex.metadata.files[k].inode = inode
    IN  ex.metadata.files[i].qr_blocks

\* The numbering of the data images written by an export of fs_files.
DataNumbering(ex, fs_files) ==
    LET D == ex.directory_blocks_count
        with_data == {i \in DOMAIN fs_files : chunk_count(fs_files[i]) > 0}
    IN  /\ \A i \in DOMAIN fs_files :
               /\ Len(QrBlocksOf(ex, i)) = chunk_count(fs_files[i])
               /\ \A c \in 1..chunk_count(fs_files[i]) :
                      /\ QrBlocksOf(ex, i)[c] \in DOMAIN ex.dir
                      /\ qr_to_binary(ex.dir[QrBlocksOf(ex, i)[c]])
                             = Some(split_data_for_qr(Unwrap(fs_files[i].data))[c])
                      /\ c > 1 => QrBlocksOf(ex, i)[c] = QrBlocksOf(ex, i)[c - 1] + 1
        /\ DataImages(ex) =
               D..(D + SumTo([i \in 1..Len(ex.metadata.files) |->
                                 Len(ex.metadata.files[i].qr_blocks)],
                             Len(ex.metadata.files)) - 1)
        /\ \A i, j \in with_data :
               i < j => QrBlocksOf(ex, i)[chunk_count(fs_files[i])] < QrBlocksOf(ex, j)[1]

\* C34: an export numbers the data images from D on, file after file in
\* ascending inode order: every chunk is written under the number recorded
\* for it, the numbers of a file are consecutive, all numbers are distinct
\* and without gaps, and a file with a smaller inode has smaller numbers.
C34_DataNumbersByInode ==
    [][\A passphrase \in ArchivePassphrases, order \in Orders(DOMAIN files) :
          destroy(passphrase, order)
              => DataNumbering(export_files_as_qr(files, INODE_COUNTER, archive,
                                                  passphrase, order), files)
      ]_vars

(***************************************************************************)
(* The loop of import_files_from_qr that reads the directory images, turn  *)
(* by turn (bin/import.rs on a directory of any content).  scan is         *)
(* [current_block, combined, reads, res]: the number of the next image,    *)
(* the bytes of the images read so far, the number of qr_to_binary calls   *)
(* made, and the place of the loop: "reading" before an image is read,     *)
(* "searching" once its bytes are appended, or what the loop left with, as *)
(* in ReadDirectory.                                                       *)
(***************************************************************************)
\* The first half of a turn: the next image, if there is one, is decoded
\* and its bytes are appended.
scan_read_turn(dir, s) ==
    IF s.current_block \notin DOMAIN dir THEN [s EXCEPT !.res = "NO_SENTINEL"]
    ELSE IF qr_to_binary(dir[s.current_block]) = None
         THEN [s EXCEPT !.res = "DECODE", !.reads = @ + 1]
    ELSE [current_block |-> s.current_block + 1,
          combined |-> s.combined \o Unwrap(qr_to_binary(dir[s.current_block])),
          reads |-> s.reads + 1,
          res |-> "searching"]

\* The second half of a turn that gives up after the first image.
scan_search_hasty(s) ==
    [s EXCEPT !.res = IF IsUtf8(s.combined) /\ Find(s.combined, SENTINEL) # 0
                      THEN "FOUND"
                      ELSE IF s.current_block > 0
                      THEN "TOO_MANY"
                      ELSE "reading"]

\* The second half of a turn: the sentinel is looked for in the bytes read
\* so far, and the loop gives up after too many images.
scan_search_turn(s) ==
    [s EXCEPT !.res = IF IsUtf8(s.combined) /\ Find(s.combined, SENTINEL) # 0
                      THEN "FOUND"
                      ELSE IF s.current_block > MAX_DIRECTORY_BLOCKS
                      THEN "TOO_MANY"
                      ELSE "reading"]

scan_read ==
    /\ phase = "scanning"
    /\ Unwrap(scan).res = "reading"
    /\ scan' = Some(scan_read_turn(archive, Unwrap(scan)))
    /\ UNCHANGED <<files, inode_block_table, bitmap, disk, INODE_COUNTER, phase,
                   reply, archive, exported, stream, issued, lector>>

scan_search ==
    /\ phase = "scanning"
    /\ Unwrap(scan).res = "searching"
    /\ scan' = Some(scan_search_turn(Unwrap(scan)))
    /\ UNCHANGED <<files, inode_block_table, bitmap, disk, INODE_COUNTER, phase,
                   reply, archive, exported, stream, issued, lector>>

\* The rest of import_files_from_qr once the loop is left, and of
\* bin/import.rs, which writes the counter cell after a successful import.
scan_import(passphrase) ==
    LET s == Unwrap(scan)
        r == ImportAfterRead(Self, INODE_COUNTER, archive, passphrase,
                             [res |-> s.res, text |-> s.combined])
    IN  /\ phase = "scanning"
        /\ s.res \notin {"reading", "searching"}
        /\ Become(IF r.res = "Ok"
                  THEN [r.fs EXCEPT !.disk = write_u64(@, r.counter)]
                  ELSE r.fs)
        /\ INODE_COUNTER' = r.counter
        /\ phase' = IF r.res = "Ok" THEN "imported" ELSE "import_failed"
        /\ reply' = [op |-> "import", ino |-> 0, res |-> r.res, pass |-> passphrase]
        /\ UNCHANGED <<archive, exported, stream, issued, lector, scan>>

\* Directory contents: n images numbered from 0, all holding the text "a"
\* but the one at a given place, which holds the sentinel followed by "x"
\* or is no QR image; and the archive of a new filesystem.
Filler == binary_to_qr(<<97>>)
SentinelImage == binary_to_qr(SENTINEL \o <<120>>)
Undecodable == <<33>>
ScanDir(n, special, at) == [k \in 0..(n - 1) |-> IF k = at THEN special ELSE Filler]
ScanLengths == {0, 1, 2, 3} \cup {MAX_DIRECTORY_BLOCKS, MAX_DIRECTORY_BLOCKS + 2}
ScanSpots == {0, 1, 2} \cup {MAX_DIRECTORY_BLOCKS, MAX_DIRECTORY_BLOCKS + 1}
ScanDirs ==
    {ScanDir(n, special, at) :
        n \in ScanLengths, special \in {Filler, SentinelImage, Undecodable},
        at \in ScanSpots}
    \cup {LectorArchive, [k \in {1} |-> Filler]}

InitScan ==
    /\ files = << >>
    /\ inode_block_table = << >>
    /\ bitmap = read_bitmap(initialize_new_disk)
    /\ disk = initialize_new_disk
    /\ INODE_COUNTER = 1
    /\ phase = "scanning"
    /\ reply = [op |-> "import", res |-> "", ino |-> 0]
    /\ archive \in ScanDirs
    /\ exported = None
    /\ stream = None
    /\ issued = {}
    /\ lector = None
    /\ scan = Some([current_block |-> 0, combined |-> << >>, reads |-> 0,
                    res |-> "reading"])

ScanImportStep == \E passphrase \in {Pass(1), Pass(2)} : scan_import(passphrase)

NextScan == scan_read \/ scan_search \/ ScanImportStep

\* The loop runs in the one thread of bin/import.rs, which keeps running
\* until the loop is left.
SpecScan ==
    InitScan /\ [][NextScan]_vars /\ WF_vars(scan_read) /\ WF_vars(scan_search)

\* The sentinel is in the bytes read so far.
SentinelSeen(s) == IsUtf8(s.combined) /\ Find(s.combined, SENTINEL) # 0

\* The loop has been left.
ScanLeft == scan # None /\ Unwrap(scan).res \notin {"reading", "searching"}

ScanBounded ==
    scan # None =>
        LET s == Unwrap(scan)
        IN  /\ s.reads <= MAX_DIRECTORY_BLOCKS + 1
            /\ s.res = "FOUND" => SentinelSeen(s)
            /\ (ScanLeft /\ SentinelSeen(s)) => s.res \in {"FOUND", "DECODE"}
            /\ (ScanLeft /\ s.reads > MAX_DIRECTORY_BLOCKS /\ ~SentinelSeen(s))
                   => s.res \in {"TOO_MANY", "DECODE"}
            /\ s.res = "TOO_MANY" => s.reads > MAX_DIRECTORY_BLOCKS
            /\ (ScanLeft /\ s.current_block \notin DOMAIN archive /\ ~SentinelSeen(s)
                   /\ s.reads <= MAX_DIRECTORY_BLOCKS)
                   => s.res \in {"NO_SENTINEL", "DECODE"}
            /\ s.res = "NO_SENTINEL" => s.current_block \notin DOMAIN archive
            /\ (phase # "scanning" /\ s.res # "FOUND")
                   => /\ phase = "import_failed"
                      /\ reply.res = s.res

\* C35: the loop that looks for the sentinel ends on every directory: it
\* reads at most 1001 images, leaves with the too-many-blocks error when
\* 1001 images were read and the sentinel is not among them, and with the
\* sentinel-not-found error when the images run out first; the import then
\* fails.
C35_ScanTerminates == []ScanBounded /\ <>ScanLeft

\* 1001 images without the sentinel were read and the import has failed.
C35_Witness ==
    /\ scan # None
    /\ Unwrap(scan).reads = MAX_DIRECTORY_BLOCKS + 1
    /\ Unwrap(scan).res = "TOO_MANY"
    /\ phase = "import_failed"
    /\ reply.res = "TOO_MANY"

(***************************************************************************)
(* allocate_block and free_block on their own, applied to backing files    *)
(* with any bitmap over the bits 0 .. BLOCK_COUNT + 1: the bitmap block    *)
(* holds more bits than there are blocks, so bits at and above BLOCK_COUNT *)
(* exist in the file and are part of "every other bit".                    *)
(***************************************************************************)
AllocBits == 0..(BLOCK_COUNT + 1)

InitAlloc ==
    /\ files = << >>
    /\ inode_block_table = << >>
    /\ disk \in {write_bitmap(initialize_new_disk, bm) : bm \in SUBSET AllocBits}
    /\ bitmap = read_bitmap(disk)
    /\ INODE_COUNTER = 1
    /\ phase = "disk"
    /\ reply = [op |-> "open_disk", res |-> "ok", ino |-> 0]
    /\ archive = << >>
    /\ exported = None
    /\ stream = None
    /\ issued = {}
    /\ lector = None
    /\ scan = None

\* allocate_block(&mut disk): reply.res is "Some" with the block in
\* reply.ino, or "None" when no block is free.
allocate_step ==
    /\ phase = "disk"
    /\ disk' = allocate_block(disk).disk
    /\ reply' = [op |-> "allocate_block",
                 res |-> IF IsSome(allocate_block(disk).block) THEN "Some" ELSE "None",
                 ino |-> IF IsSome(allocate_block(disk).block)
                         THEN Unwrap(allocate_block(disk).block) ELSE 0]
    /\ UNCHANGED <<files, inode_block_table, bitmap, INODE_COUNTER, phase,
                   archive, exported, stream, issued, lector, scan>>

\* free_block(&mut disk, block_idx)
free_step(block_idx) ==
    /\ phase = "disk"
    /\ disk' = free_block(disk, block_idx)
    /\ reply' = [op |-> "free_block", res |-> "ok", ino |-> block_idx]
    /\ UNCHANGED <<files, inode_block_table, bitmap, INODE_COUNTER, phase,
                   archive, exported, stream, issued, lector, scan>>

FreeStep == \E block_idx \in DATA_START..(BLOCK_COUNT - 1) : free_step(block_idx)

NextAlloc == allocate_step \/ FreeStep

SpecAlloc == InitAlloc /\ [][NextAlloc]_vars

\* What the call must have done, said without the scan: the block returned
\* is clear before, every lower data block is set before, and the bitmap
\* after is the bitmap before plus that one bit.
AllocatePost ==
    LET before == read_bitmap(disk)
        range == DATA_START..(BLOCK_COUNT - 1)
    IN  /\ reply'.res \in {"Some", "None"}
        /\ (reply'.res = "None") <=> (\A b \in range : b \in before)
        /\ reply'.res = "None" => disk' = disk
        /\ reply'.res = "Some" =>
              /\ reply'.ino \in range
              /\ reply'.ino \notin before
              /\ \A c \in range : c < reply'.ino => c \in before
              /\ read_bitmap(disk') = before \cup {reply'.ino}
              /\ \A b \in AllocBits \ {reply'.ino} :
                    (b \in read_bitmap(disk')) <=> (b \in before)
              /\ read_u64(disk') = read_u64(disk)
              /\ disk'.blocks = disk.blocks

\* C36: allocate returns the lowest index b in 2..N-1 whose bitmap bit is
\* clear, sets exactly that bit and leaves every other bit unchanged; it
\* returns no block iff all bits 2..N-1 are set, and then leaves the bitmap
\* unchanged.
C36_AllocateLowestFree == [][allocate_step => AllocatePost]_vars

\* An allocation has returned block 3 while block 4 was free as well and
\* bits at and above BLOCK_COUNT were set.
C36_Witness ==
    /\ reply.op = "allocate_block"
    /\ reply.res = "Some"
    /\ reply.ino = DATA_START + 1
    /\ read_bitmap(disk) = {0, 1, DATA_START, DATA_START + 1, BLOCK_COUNT}

\* The allocator has reported that no block is free.
AllocExhausted ==
    /\ reply.op = "allocate_block"
    /\ reply.res = "None"
    /\ BLOCK_COUNT \notin read_bitmap(disk)

(***************************************************************************)
(* The reserved bits of the bitmap, over create, mkdir, rmdir, export,     *)
(* import and mounting again: files are named "a" and directories "b".     *)
(***************************************************************************)
BitsDestroyStep ==
    /\ archive = << >>
    /\ \E order \in Orders(DOMAIN files) : destroy(Pass(1), order)

BitsRemountStep == \E order \in Orders(LoadedInodes(disk)) : remount(order)

NextBits ==
    \/ CounterCreateStep
    \/ CounterMkdirStep
    \/ CounterRmdirStep
    \/ BitsDestroyStep
    \/ CounterImportStep
    \/ BitsRemountStep

SpecBits == Init /\ [][NextBits]_vars

\* C37: in every state reachable from a freshly initialised backing file by
\* create, mkdir, rmdir and import (and mounting again), bits 0 and 1 of the
\* bitmap on the backing file are set, and every block the table holds (the
\* blocks allocate has returned and the only ones free is applied to) is a
\* block from DATA_START on.
C37_ReservedBitsSet ==
    /\ bitmap_get(read_bitmap(disk), BITMAP_START)
    /\ bitmap_get(read_bitmap(disk), INODE_COUNTER_START)
    /\ \A i \in DOMAIN inode_block_table : inode_block_table[i] >= DATA_START

\* A directory has been removed on a filesystem that was imported and
\* mounted again, after which a block is free.
C37_Witness ==
    /\ exported # None
    /\ phase = "mounted"
    /\ reply.op = "rmdir"
    /\ reply.res = "ok"
    /\ \E b \in DATA_START..(BLOCK_COUNT - 1) : ~bitmap_get(read_bitmap(disk), b)
    /\ bitmap_get(read_bitmap(disk), BITMAP_START)
    /\ bitmap_get(read_bitmap(disk), INODE_COUNTER_START)

(***************************************************************************)
(* The bitmap on the backing file against the live entries.                *)
(***************************************************************************)
\* The data blocks whose bit is set in the bitmap of backing file d.
SetBits(d) == {b \in DATA_START..(BLOCK_COUNT - 1) : bitmap_get(read_bitmap(d), b)}

\* The blocks the inode -> block table gives to the live entries.
LiveBlocks == {inode_block_table[i] : i \in DOMAIN files \cap DOMAIN inode_block_table}

\* C38: after any sequence of create, mkdir and rmdir on a mounted
\* filesystem the set bits from 2 on of the bitmap on the backing file are
\* exactly the blocks of the live entries, every live entry has a block and
\* no block has two owners: a block freed by rmdir stays free until allocate
\* hands it out again.
C38_BitmapIsLiveBlocks ==
    phase = "mounted"
        => /\ SetBits(disk) = LiveBlocks
           /\ DOMAIN files \subseteq DOMAIN inode_block_table
           /\ \A i, j \in DOMAIN files :
                  inode_block_table[i] = inode_block_table[j] => i = j

(***************************************************************************)
(* What write and setattr leave alone.  Two files in the root; a write at  *)
(* offset BLOCK_SIZE - ENTRY_HEADER and a setattr to one byte more than    *)
(* that make an entry whose serialized form is BLOCK_SIZE + 1 bytes.       *)
(***************************************************************************)
\* write is called on both files, setattr on the first.
FrameInodes == {2, 3}
FrameSizes == {None, Some(2), Some(BLOCK_SIZE - ENTRY_HEADER + 1)}

\* Each of the two names is created once.
FrameCreateStep ==
    \E name \in Names : FindChild(files, 1, name) = None /\ create(1, name)

FrameWriteStep ==
    \E ino \in FrameInodes, offset \in WriteOffsets, data \in WriteData :
        write(ino, offset, data)

FrameSetattrStep ==
    \E ino \in {2}, mode \in Modes, size \in FrameSizes :
        setattr(ino, mode, size)

NextFrame == FrameCreateStep \/ FrameWriteStep \/ FrameSetattrStep

SpecFrame == Init /\ [][NextFrame]_vars

\* A step that touches nothing but entry ino and the block of entry ino.
OnlyEntry(ino) ==
    /\ DOMAIN files' = DOMAIN files
    /\ \A j \in DOMAIN files \ {ino} : files'[j] = files[j]
    /\ \A j \in DOMAIN files \ {ino} :
           j \in DOMAIN inode_block_table
               => read_block(disk', inode_block_table[j])
                     = read_block(disk, inode_block_table[j])
    /\ \A b \in DOMAIN disk.blocks :
           (ino \notin DOMAIN inode_block_table \/ b # inode_block_table[ino])
               => read_block(disk', b) = read_block(disk, b)
    /\ read_bitmap(disk') = read_bitmap(disk)
    /\ read_u64(disk') = read_u64(disk)
    /\ UNCHANGED <<inode_block_table, bitmap, INODE_COUNTER>>

\* C39: write and setattr on inode i change only entry i and rewrite only
\* i's block: every other entry's record, every other entry's block on the
\* backing file, the bitmap and the counter cell are unchanged, also when
\* i's serialized form is larger than one block.
C39_WriteSetattrFrame ==
    [][/\ \A ino \in FrameInodes, offset \in WriteOffsets, data \in WriteData :
              write(ino, offset, data) => OnlyEntry(ino)
       /\ \A ino \in {2}, mode \in Modes, size \in FrameSizes :
              setattr(ino, mode, size) => OnlyEntry(ino)]_vars

\* The first file has just been written so that its serialized form is
\* larger than one block, while the block that follows holds the second
\* file with its data.
C39_Witness ==
    /\ reply.op = "write"
    /\ reply.res = "ok"
    /\ reply.ino = 2
    /\ Len(serialize_fs_entry_to_disk(files[2])) > BLOCK_SIZE
    /\ 3 \in DOMAIN files
    /\ inode_block_table[3] = inode_block_table[2] + 1
    /\ files[3].data = Some(<<171>>)
    /\ SubSeq(read_block(disk, inode_block_table[3]), 1,
              Len(serialize_fs_entry_to_disk(files[3])))
          = serialize_fs_entry_to_disk(files[3])

\* The same after a setattr that made the first file too large.
SetattrTooLarge ==
    /\ reply.op = "setattr"
    /\ reply.res = "ok"
    /\ reply.ino = 2
    /\ Len(serialize_fs_entry_to_disk(files[2])) > BLOCK_SIZE
    /\ 3 \in DOMAIN files

(***************************************************************************)
(* import_files_from_qr called on a QRFileSystem that holds entries: the   *)
(* filesystem that wrote the archive imports it again, from a directory    *)
(* that may have been damaged in between.                                  *)
(***************************************************************************)
GateCreateStep ==
    \E name \in Names : FindChild(files, 1, name) = None /\ create(1, name)

\* One export in a run, under the passphrase "x".
GateDestroyStep ==
    /\ archive = << >>
    /\ \E order \in Orders(DOMAIN files) : destroy(Pass(1), order)

\* "{|PASSPHRASE:x" as the only text: a sentinel and the passphrase "x"
\* after a text that is no FilesystemMetadata.
GarbledImage == binary_to_qr(<<123>> \o SENTINEL \o Pass(1))

\* Image 000 is lost ("drop"), is no QR image any more ("smudge"), or is
\* replaced by GarbledImage ("garble").
damage(kind) ==
    /\ phase \in {"exported", "imported", "import_failed"}
    /\ 0 \in DOMAIN archive
    /\ archive' = IF kind = "drop"
                  THEN [k \in DOMAIN archive \ {0} |-> archive[k]]
                  ELSE [archive EXCEPT ![0] = IF kind = "smudge" THEN Undecodable
                                              ELSE GarbledImage]
    /\ reply' = [op |-> "damage", ino |-> 0, res |-> kind]
    /\ UNCHANGED <<files, inode_block_table, bitmap, disk, INODE_COUNTER, phase,
                   exported, stream, issued, lector, scan>>

DamageStep == \E kind \in {"drop", "smudge", "garble"} : damage(kind)

\* self.import_files_from_qr(archive, passphrase) on the filesystem as it is.
import_again(passphrase) ==
    LET r == import_files_from_qr(Self, INODE_COUNTER, archive, passphrase)
    IN  /\ phase \in {"exported", "imported", "import_failed"}
        /\ Become(r.fs)
        /\ INODE_COUNTER' = r.counter
        /\ phase' = IF r.res = "Ok" THEN "imported"
                    ELSE IF r.res = "Panic" THEN "panicked" ELSE "import_failed"
        /\ reply' = [op |-> "import", ino |-> 0, res |-> r.res, pass |-> passphrase]
        /\ UNCHANGED <<archive, exported, stream, issued, lector, scan>>

GateImportStep == \E passphrase \in {Pass(1), Pass(2)} : import_again(passphrase)

NextGate == GateCreateStep \/ GateDestroyStep \/ DamageStep \/ GateImportStep

SpecGate == Init /\ [][NextGate]_vars

\* The errors of the gate: wrong passphrase, sentinel not found (no image
\* left, or too many images), undecodable metadata image, metadata that
\* does not parse.
GateErrors == {"WRONG_PASSPHRASE", "NO_SENTINEL", "TOO_MANY", "DECODE",
               "CORRUPT_METADATA"}

\* C40: an import that fails at the gate (wrong passphrase, sentinel not
\* found, undecodable metadata image, or metadata parse error) leaves the
\* filesystem exactly as it was: entries, inode -> block table, the inode
\* counter and the backing file are unchanged.
C40_GateFailureFrame ==
    [][\A passphrase \in {Pass(1), Pass(2)} :
           (import_again(passphrase) /\ reply'.res \in GateErrors)
               => UNCHANGED <<files, inode_block_table, bitmap, disk,
                              INODE_COUNTER>>]_vars

\* An import under the wrong passphrase has failed on a filesystem that
\* holds the root and two files.
C40_Witness ==
    /\ reply.op = "import"
    /\ reply.res = "WRONG_PASSPHRASE"
    /\ Cardinality(DOMAIN files) = 3
    /\ DOMAIN inode_block_table = DOMAIN files
    /\ INODE_COUNTER = 4

\* The other ways to fail at the gate, on a filesystem that holds entries.
GateFailedOtherwise(res) ==
    /\ reply.op = "import"
    /\ reply.res = res
    /\ Cardinality(DOMAIN files) >= 2

====
